---- MODULE Spec2Model ----
(***************************************************************************)
(* Worker pool and per-job pipeline of the video converter service.        *)
(*                                                                         *)
(* The model follows internal/worker/worker.go: New builds the buffered    *)
(* job queue, Start spawns the worker goroutines and shuts the pool down   *)
(* on cancellation, SubmitJob is the non-blocking admission, workerLoop /  *)
(* processJob / executeConversion run one job through its stages.          *)
(* A job is a *models.ConversionJob: the objects are Jobs, and status[j]   *)
(* is the Status field of object j.  Time values are modelled by whether   *)
(* they are set (TRUE) or still the zero time (FALSE).                     *)
(*                                                                         *)
(* Library functions the pipeline calls are also studied on their own,     *)
(* each under a specification of its own whose initial states draw the     *)
(* arguments (args) and whose actions run the call (result): the storage   *)
(* factory (FactorySpec), Transcode with its packagings (TranscodeSpec),   *)
(* the batch upload (UploadSpec), one encoder run (EncoderSpec), the       *)
(* staging of the output files (StagingSpec), the validation of the source *)
(* file (ValidateSpec) and parseFrameRate (FrameRateSpec).  RunningSpec is *)
(* the pool that is never cancelled, with fairness; ShutdownSpec is the    *)
(* pool with a record of the jobs its workers received.                    *)
(***************************************************************************)
EXTENDS Integers, Sequences, FiniteSets, TLC

\* ---------------------------------------------------------------- bounds
\* number of distinct job objects the submitters hold
NumJobs == 3
\* number of SubmitJob calls per behaviour that find room in the queue
MaxAccepted == 2
\* largest configured value of max_concurrent_jobs
MaxPoolSize == 2

\* largest frame number ffmpeg reports on its progress lines
MaxFrame == 2
\* largest TotalFrames estimate that getVideoInfo computes
MaxTotalFrames == 2
\* largest number of encoder runs (outputs x profiles) of a template
MaxEncodes == 2

\* outputs of a template, profiles of an output, segments of a rendition
MaxOutputs == 2

MaxProfiles == 2

MaxSegments == 2

\* files of one batch upload
MaxFiles == 3

\* lines one encoder run writes to stderr
MaxLines == 3

Jobs == 1..NumJobs

\* goroutine ids; Start hands out the ids 1..MaxConcurrentJobs
WorkerIds == 1..(MaxPoolSize + 1)

\* ------------------------------------------------------------ job states
JobStateNone == ""
JobStatePending == "pending"
JobStateProcessing == "processing"
JobStateCompleted == "completed"
JobStateFailed == "failed"
JobStateCancelled == "cancelled"

JobStates == {JobStateNone, JobStatePending, JobStateProcessing,
              JobStateCompleted, JobStateFailed, JobStateCancelled}

\* zero value of models.JobStatus (a job object before its first SubmitJob)
ZeroStatus ==
    [state |-> JobStateNone, progress |-> 0, startedAt |-> FALSE,
     completedAt |-> FALSE, error |-> ""]

\* variant: the message of the literal is put in the Error field
PendingStatusMessageInError ==
    [state |-> JobStatePending, progress |-> 0, startedAt |-> FALSE,
     completedAt |-> FALSE, error |-> "Job queued for processing"]

\* the JobStatus literal SubmitJob assigns
PendingStatus ==
    [state |-> JobStatePending, progress |-> 0, startedAt |-> FALSE,
     completedAt |-> FALSE, error |-> ""]

\* ------------------------------------------------- job descriptors (input)
\* strings.ToLower(job.Source.Type)
SourceType(j) == IF j % 2 = 1 THEN "local" ELSE "http"

\* job.Template is a key of cfg.JobTemplates for every job object but each third
TemplateExists(j) == j % 3 # 0

\* inputInfo.TotalFrames of the job's source: int(duration x frame rate), 0
\* when the duration or the frame rate is unknown
TotalFrames(j) == j % (MaxTotalFrames + 1)

\* number of runFFmpegWithProgress calls the job's template leads to: one per
\* profile of each output, one after the other
Encodes(j) == 1 + (j % MaxEncodes)

\* jobs whose source path os.Stat looks at: the local sources of jobs that get
\* as far as the download
StatJobs == {j \in Jobs : SourceType(j) = "local" /\ TemplateExists(j)}

\* cfg.Storage.Type
StorageType == "local"

NoJob == [job |-> 0, ticket |-> 0]

VARIABLES
    MaxConcurrentJobs, \* cfg.Processing.MaxConcurrentJobs
    sourceExists,  \* job object -> the file at job.Source.URI exists
    workspace,     \* job object -> the directory {TempDir}/{JobID} exists
    encodeNo,      \* worker goroutine -> encoder runs of its job that have ended
    readers,       \* the goroutines started by runFFmpegWithProgress that are
                   \* still running: [job, worker, total, last, buf, open]
    callErr,       \* worker goroutine -> stage whose call returned the last
                   \* non-nil err of executeConversion ("" when nil)
    status,        \* job object -> JobStatus
    jobQueue,      \* buffered channel w.jobQueue: sequence of [job, ticket]
    queueClosed,   \* close(w.jobQueue) has run
    ctxDone,       \* the ctx passed to Start is cancelled
    wctxDone,      \* w.ctx is cancelled (w.cancel has run)
    startPc,       \* position of Start
    spawned,       \* loop variable i of Start
    wg,            \* w.wg counter
    pc,            \* worker goroutine -> position
    cur,           \* worker goroutine -> job it received
    timedOut,      \* worker goroutine -> deadline of its jobCtx has passed
    child,         \* worker goroutine -> child process it is waiting for
    submitResult,  \* what the SubmitJob call of the last step returned
    accepted,      \* number of accepted SubmitJob calls (ticket counter)
    dequeued,      \* number of jobs received from the queue
    maxProcTicket, \* largest ticket that has entered processing
    args,          \* arguments of the library function under study
    result         \* what that function returned (done is FALSE before the call)

vars == <<MaxConcurrentJobs, sourceExists, workspace, encodeNo, readers, callErr, status, jobQueue, queueClosed, ctxDone, wctxDone, startPc, spawned,
          wg, pc, cur, timedOut, child, submitResult, accepted,
          dequeued, maxProcTicket, args, result>>

\* a library function called on its own: arguments and return value
callVars == <<args, result>>

\* state of the encoder runs and of their output readers
encVars == <<encodeNo, readers>>

poolVars == <<MaxConcurrentJobs, sourceExists, callVars, queueClosed, ctxDone, wctxDone, startPc, spawned, wg>>

\* positions of a worker while it holds a jobCtx (processJob lines 140-159)
CtxStages == {"download", "validate", "transcode", "probing", "encode",
              "encoding", "upload", "cleanup", "notify", "finish"}

\* positions of a worker inside processJob
JobStages == {"received", "lookup"} \cup CtxStages

\* jobCtx.Done(): context.WithTimeout(w.ctx, JobTimeoutMinutes)
JobCtxDone(w) == wctxDone \/ timedOut[w]

\* variant: the channel is made with room for one job per worker only
QueueCapSingle == MaxConcurrentJobs

\* capacity of the jobQueue channel made by New
QueueCap == MaxConcurrentJobs * 2

\* config.validate accepts only a positive max_concurrent_jobs
ValidConfig(n) == n > 0

\* the pool as New leaves it
PoolInit ==
    /\ MaxConcurrentJobs \in {n \in 0..MaxPoolSize : ValidConfig(n)}
    /\ sourceExists \in {f \in [Jobs -> BOOLEAN] : \A j \in Jobs \ StatJobs : f[j]}
    /\ workspace = [j \in Jobs |-> FALSE]
    /\ callErr = [w \in WorkerIds |-> ""]
    /\ encodeNo = [w \in WorkerIds |-> 0]
    /\ readers = <<>>
    /\ status = [j \in Jobs |-> ZeroStatus]
    /\ jobQueue = <<>>
    /\ queueClosed = FALSE
    /\ ctxDone = FALSE
    /\ wctxDone = FALSE
    /\ startPc = "spawn"
    /\ spawned = 0
    /\ wg = 0
    /\ pc = [w \in WorkerIds |-> "notstarted"]
    /\ cur = [w \in WorkerIds |-> NoJob]
    /\ timedOut = [w \in WorkerIds |-> FALSE]
    /\ child = [w \in WorkerIds |-> "none"]
    /\ submitResult = "none"
    /\ accepted = 0
    /\ dequeued = 0
    /\ maxProcTicket = 0

NoArgs == [fn |-> "none"]

NoResult == [done |-> FALSE]

Init ==
    /\ PoolInit
    /\ args = NoArgs
    /\ result = NoResult


\* ------------------------------------------------------------ the channel
\* variant: the element is put in front of the waiting ones
EnqueueFront(q, e) == <<e>> \o q

\* variant: a receive leaves the element in the buffer
DequeuePeek(q) == q

\* receive from the buffered channel: the front element leaves the buffer
Dequeue(q) == Tail(q)

\* send on the buffered channel: the element goes to the back of the buffer
Enqueue(q, e) == Append(q, e)

\* ------------------------------------------------------------- SubmitJob
\* SubmitJob(job): overwrite job.Status, then a select with a send case and a
\* default case.  A send on a closed channel panics (the select picks the send
\* case, a closed channel never selects default).
SubmitJob(j) ==
    /\ queueClosed \/ Len(jobQueue) >= QueueCap \/ accepted < MaxAccepted
    /\ status' = [status EXCEPT ![j] = PendingStatus]
    /\ IF queueClosed
         THEN /\ submitResult' = "panic"
              /\ UNCHANGED <<jobQueue, accepted>>
         ELSE IF Len(jobQueue) < QueueCap
           THEN /\ jobQueue' = Enqueue(jobQueue, [job |-> j, ticket |-> accepted + 1])
                /\ accepted' = accepted + 1
                /\ submitResult' = "ok"
           ELSE /\ submitResult' = "full"
                /\ UNCHANGED <<jobQueue, accepted>>
    /\ UNCHANGED <<poolVars, workspace, encVars, pc, cur, timedOut, child, callErr, dequeued,
                   maxProcTicket>>

\* ----------------------------------------------------------------- Start
\* variant: the spawn loop runs once more (i <= MaxConcurrentJobs)
PoolSizeOffByOne == MaxConcurrentJobs + 1

\* number of worker goroutines Start launches
PoolSize == MaxConcurrentJobs

\* one iteration of the spawn loop: w.wg.Add(1); go w.workerLoop(i)
StartSpawn ==
    /\ startPc = "spawn"
    /\ spawned < PoolSize
    /\ spawned' = spawned + 1
    /\ wg' = wg + 1
    /\ pc' = [pc EXCEPT ![spawned + 1] = "select"]
    /\ UNCHANGED <<MaxConcurrentJobs, sourceExists, callVars, status, jobQueue, queueClosed, ctxDone, wctxDone, startPc,
                   cur, timedOut, child, callErr, accepted, dequeued, maxProcTicket>>
    /\ submitResult' = "none"
    /\ UNCHANGED encVars
    /\ UNCHANGED workspace

\* the loop is over: Start blocks on <-ctx.Done()
StartWait ==
    /\ startPc = "spawn"
    /\ spawned >= PoolSize
    /\ startPc' = "wait"
    /\ UNCHANGED <<MaxConcurrentJobs, sourceExists, callVars, status, jobQueue, queueClosed, ctxDone, wctxDone, spawned,
                   wg, pc, cur, timedOut, child, callErr, accepted, dequeued,
                   maxProcTicket>>
    /\ submitResult' = "none"
    /\ UNCHANGED encVars
    /\ UNCHANGED workspace

\* the owner of the service cancels the context it gave to Start
CancelContext ==
    /\ ~ctxDone
    /\ ctxDone' = TRUE
    /\ UNCHANGED <<MaxConcurrentJobs, sourceExists, callVars, status, jobQueue, queueClosed, wctxDone, startPc, spawned,
                   wg, pc, cur, timedOut, child, callErr, accepted, dequeued,
                   maxProcTicket>>
    /\ submitResult' = "none"
    /\ UNCHANGED encVars
    /\ UNCHANGED workspace

\* <-ctx.Done() returns; w.cancel()
StartCancel ==
    /\ startPc = "wait"
    /\ ctxDone
    /\ wctxDone' = TRUE
    /\ startPc' = "close"
    /\ UNCHANGED <<MaxConcurrentJobs, sourceExists, callVars, status, jobQueue, queueClosed, ctxDone, spawned, wg, pc,
                   cur, timedOut, child, callErr, accepted, dequeued, maxProcTicket>>
    /\ submitResult' = "none"
    /\ UNCHANGED encVars
    /\ UNCHANGED workspace

\* close(w.jobQueue)
StartClose ==
    /\ startPc = "close"
    /\ queueClosed' = TRUE
    /\ startPc' = "wgwait"
    /\ UNCHANGED <<MaxConcurrentJobs, sourceExists, callVars, status, jobQueue, ctxDone, wctxDone, spawned, wg, pc, cur,
                   timedOut, child, callErr, accepted, dequeued, maxProcTicket>>
    /\ submitResult' = "none"
    /\ UNCHANGED encVars
    /\ UNCHANGED workspace

\* variant: Start does not wait for the workers
WaitGroupSkipped == TRUE

\* w.wg.Wait() lets Start go on
WaitGroupDone == wg = 0

\* w.wg.Wait() returns, Start returns
StartReturn ==
    /\ startPc = "wgwait"
    /\ WaitGroupDone
    /\ startPc' = "returned"
    /\ UNCHANGED <<MaxConcurrentJobs, sourceExists, callVars, status, jobQueue, queueClosed, ctxDone, wctxDone, spawned,
                   wg, pc, cur, timedOut, child, callErr, accepted, dequeued,
                   maxProcTicket>>
    /\ submitResult' = "none"
    /\ UNCHANGED encVars
    /\ UNCHANGED workspace

\* ------------------------------------------------------------ workerLoop
\* the select of workerLoop takes the <-w.ctx.Done() case: return (wg.Done)
WorkerStop(w) ==
    /\ pc[w] = "select"
    /\ wctxDone
    /\ pc' = [pc EXCEPT ![w] = "exited"]
    /\ wg' = wg - 1
    /\ UNCHANGED <<MaxConcurrentJobs, sourceExists, callVars, status, jobQueue, queueClosed, ctxDone, wctxDone, startPc,
                   spawned, cur, timedOut, child, callErr, accepted, dequeued,
                   maxProcTicket>>
    /\ submitResult' = "none"
    /\ UNCHANGED encVars
    /\ UNCHANGED workspace

\* the select takes the receive case and the channel is closed and drained
WorkerQueueClosed(w) ==
    /\ pc[w] = "select"
    /\ queueClosed
    /\ jobQueue = <<>>
    /\ pc' = [pc EXCEPT ![w] = "exited"]
    /\ wg' = wg - 1
    /\ UNCHANGED <<MaxConcurrentJobs, sourceExists, callVars, status, jobQueue, queueClosed, ctxDone, wctxDone, startPc,
                   spawned, cur, timedOut, child, callErr, accepted, dequeued,
                   maxProcTicket>>
    /\ submitResult' = "none"
    /\ UNCHANGED encVars
    /\ UNCHANGED workspace

\* the select takes the receive case and gets a job (ok = true); when
\* w.ctx.Done() is ready too the choice between the two cases is random
WorkerReceive(w) ==
    /\ pc[w] = "select"
    /\ jobQueue # <<>>
    /\ cur' = [cur EXCEPT ![w] = Head(jobQueue)]
    /\ jobQueue' = Dequeue(jobQueue)
    /\ dequeued' = dequeued + 1
    /\ pc' = [pc EXCEPT ![w] = "received"]
    /\ UNCHANGED <<MaxConcurrentJobs, sourceExists, queueClosed, ctxDone, wctxDone,
                   startPc, spawned, wg>>
    /\ UNCHANGED <<status, timedOut, child, callErr, accepted, maxProcTicket>>
    /\ submitResult' = "none"
    /\ UNCHANGED encVars
    /\ UNCHANGED workspace

WorkerDequeue(w) ==
    /\ WorkerReceive(w)
    /\ UNCHANGED callVars

\* ------------------------------------------------------------ processJob
\* variant: the worker goroutine ends with the job
AfterJobExit == "exited"

\* where workerLoop continues when processJob has returned
AfterJob == "select"

\* processJob returns to workerLoop
ReturnToLoop(w) ==
    /\ pc' = [pc EXCEPT ![w] = AfterJob]
    /\ cur' = [cur EXCEPT ![w] = NoJob]
    /\ timedOut' = [timedOut EXCEPT ![w] = FALSE]
    /\ child' = [child EXCEPT ![w] = "none"]

\* err of the stage call that has just returned
SetErr(w, stage) == callErr' = [callErr EXCEPT ![w] = stage]

\* variant: a job that fails after the pool was cancelled is marked cancelled
FailJobOrCancel(w, err) ==
    /\ status' = [status EXCEPT ![cur[w].job] =
                    [@ EXCEPT !.state = IF wctxDone THEN JobStateCancelled
                                                   ELSE JobStateFailed,
                              !.error = err,
                              !.completedAt = TRUE]]
    /\ ReturnToLoop(w)
    /\ SetErr(w, err)

\* the failure branches of processJob: State, Error, CompletedAt, return
FailJob(w, err) ==
    /\ status' = [status EXCEPT ![cur[w].job] =
                    [@ EXCEPT !.state = JobStateFailed,
                              !.error = err,
                              !.completedAt = TRUE]]
    /\ ReturnToLoop(w)
    /\ SetErr(w, err)

\* a stage went well: executeConversion goes on with the next stage
Advance(w, next) ==
    /\ pc' = [pc EXCEPT ![w] = next]
    /\ SetErr(w, "")
    /\ UNCHANGED <<status, cur, timedOut, child>>

\* processJob lines 121-124: State, StartedAt, Message
MarkProcessing(w) ==
    /\ pc[w] = "received"
    /\ status' = [status EXCEPT ![cur[w].job] =
                    [@ EXCEPT !.state = JobStateProcessing,
                              !.startedAt = TRUE]]
    /\ maxProcTicket' = IF cur[w].ticket > maxProcTicket
                          THEN cur[w].ticket ELSE maxProcTicket
    /\ pc' = [pc EXCEPT ![w] = "lookup"]
    /\ UNCHANGED <<jobQueue, poolVars, cur, timedOut, child, callErr, accepted, dequeued>>
    /\ submitResult' = "none"
    /\ UNCHANGED encVars
    /\ UNCHANGED workspace

\* variant: the job goes on without a template
TemplateNotFoundIgnored(w) == Advance(w, "download")

\* processJob lines 128-137: State, Error, CompletedAt, return
TemplateNotFound(w) == FailJob(w, "template not found")

\* processJob lines 126-142: template lookup, then the jobCtx is made
LookupTemplate(w) ==
    /\ pc[w] = "lookup"
    /\ IF TemplateExists(cur[w].job)
         THEN Advance(w, "download")
         ELSE TemplateNotFound(w)
    /\ UNCHANGED <<jobQueue, poolVars, accepted, dequeued, maxProcTicket>>
    /\ submitResult' = "none"
    /\ UNCHANGED encVars
    /\ UNCHANGED workspace

\* the deadline of the jobCtx passes while the job is being executed
JobTimeout(w) ==
    /\ pc[w] \in CtxStages
    /\ ~timedOut[w]
    /\ timedOut' = [timedOut EXCEPT ![w] = TRUE]
    /\ UNCHANGED <<status, jobQueue, poolVars, pc, cur, child, callErr, accepted,
                   dequeued, maxProcTicket>>
    /\ submitResult' = "none"
    /\ UNCHANGED encVars
    /\ UNCHANGED workspace


\* ----------------------------------------------------- executeConversion
\* the download backends that pass ctx on to a request (HTTPStorage and
\* AzureStorage); LocalStorage.DownloadFile never looks at ctx
DownloadHonoursCtx(j) == SourceType(j) \in {"http", "https", "azure-blob"}

\* UploadFiles of the configured output storage passes ctx on to a request
\* (AzureStorage); LocalStorage.UploadFiles never looks at ctx
UploadHonoursCtx == StorageType = "azure-blob"

\* os.MkdirAll(filepath.Join(TempDir, jobID)): the job temp directory exists
MkdirJobTemp(j) == workspace' = [workspace EXCEPT ![j] = TRUE]

\* variant: the job temp directory is made before os.Stat looks at the source
SourceNotFoundAfterMkdir(w) ==
    /\ FailJob(w, "failed to download source file")
    /\ MkdirJobTemp(cur[w].job)

\* LocalStorage.DownloadFile lines 184-186: os.Stat fails, nothing was made
SourceNotFound(w) ==
    /\ FailJob(w, "failed to download source file")
    /\ UNCHANGED workspace

\* LocalStorage.DownloadFile: os.Stat of the source path comes first, then the
\* job temp directory is made, then the file is copied (copyFile may fail)
DownloadLocal(w) ==
    IF ~sourceExists[cur[w].job]
      THEN SourceNotFound(w)
      ELSE /\ MkdirJobTemp(cur[w].job)
           /\ \E copied \in BOOLEAN :
                IF copied
                  THEN Advance(w, "validate")
                  ELSE FailJob(w, "failed to download source file")

\* HTTPStorage.DownloadFile: the request is made with ctx; when it was answered
\* with 200 the job temp directory is made and the body is written to a file
DownloadHTTP(w) ==
    \E answered \in BOOLEAN :
        IF ~answered \/ JobCtxDone(w)
          THEN /\ FailJob(w, "failed to download source file")
               /\ UNCHANGED workspace
          ELSE /\ MkdirJobTemp(cur[w].job)
               /\ \E written \in BOOLEAN :
                    IF written
                      THEN Advance(w, "validate")
                      ELSE FailJob(w, "failed to download source file")

\* Step 1: downloadSourceFile through the storage made for the source type
Download(w) ==
    /\ pc[w] = "download"
    /\ IF DownloadHonoursCtx(cur[w].job)
         THEN DownloadHTTP(w)
         ELSE DownloadLocal(w)
    /\ UNCHANGED <<jobQueue, poolVars, accepted, dequeued, maxProcTicket>>
    /\ submitResult' = "none"
    /\ UNCHANGED encVars

\* Step 2: validateSourceFile (os.Stat and size checks, no ctx)
\* variant: an error of validateSourceFile is only logged
ValidateErrorLogged(w) ==
    /\ SetErr(w, "source file validation failed")
    /\ pc' = [pc EXCEPT ![w] = "transcode"]
    /\ UNCHANGED <<status, cur, timedOut, child>>

\* lines 184-186: the err of validateSourceFile is returned, wrapped
ValidateFailed(w) == FailJob(w, "source file validation failed")

Validate(w) ==
    /\ pc[w] = "validate"
    /\ \E ok \in BOOLEAN :
         IF ok
           THEN Advance(w, "transcode")
           ELSE ValidateFailed(w)
    /\ UNCHANGED <<jobQueue, poolVars, accepted, dequeued, maxProcTicket>>
    /\ submitResult' = "none"
    /\ UNCHANGED encVars
    /\ UNCHANGED workspace

\* exec.CommandContext(ctx, ...) and Start: no process is started once ctx is
\* done, otherwise the child runs and the worker waits for it
StartChild(w, name, next) ==
    IF JobCtxDone(w)
      THEN FailJob(w, "transcoding failed")
      ELSE /\ child' = [child EXCEPT ![w] = name]
           /\ pc' = [pc EXCEPT ![w] = next]
           /\ SetErr(w, "")
           /\ UNCHANGED <<status, cur, timedOut>>

\* cmd.Wait returns: the child has exited by itself, or it was killed because
\* ctx is done; either way the process is gone when Wait returns
ChildExit(w, next) ==
    \E ok \in BOOLEAN :
        IF ok /\ ~JobCtxDone(w)
          THEN /\ child' = [child EXCEPT ![w] = "none"]
               /\ pc' = [pc EXCEPT ![w] = next]
               /\ SetErr(w, "")
               /\ UNCHANGED <<status, cur, timedOut>>
          ELSE FailJob(w, "transcoding failed")

\* Step 4, Transcode: os.MkdirAll of the job temp directory, then getVideoInfo
\* starts ffprobe (cmd.Output)
StartProbe(w) ==
    /\ pc[w] = "transcode"
    /\ MkdirJobTemp(cur[w].job)
    /\ StartChild(w, "ffprobe", "probing")
    /\ UNCHANGED <<jobQueue, poolVars, accepted, dequeued, maxProcTicket>>
    /\ submitResult' = "none"
    /\ UNCHANGED encVars

\* getVideoInfo: cmd.Output returns
ProbeExit(w) ==
    /\ pc[w] = "probing"
    /\ ChildExit(w, "encode")
    /\ UNCHANGED <<jobQueue, poolVars, accepted, dequeued, maxProcTicket>>
    /\ submitResult' = "none"
    /\ UNCHANGED encVars
    /\ UNCHANGED workspace

\* runFFmpegWithProgress: cmd.Start of ffmpeg
StartEncode(w) ==
    /\ pc[w] = "encode"
    /\ StartChild(w, "ffmpeg", "encoding")
    /\ UNCHANGED <<jobQueue, poolVars, accepted, dequeued, maxProcTicket>>
    /\ submitResult' = "none"
    /\ UNCHANGED encVars
    /\ UNCHANGED workspace

\* runFFmpegWithProgress: cmd.Wait returns
EncodeExit(w) ==
    /\ pc[w] = "encoding"
    /\ ChildExit(w, "upload")
    /\ UNCHANGED <<jobQueue, poolVars, accepted, dequeued, maxProcTicket>>
    /\ submitResult' = "none"
    /\ UNCHANGED encVars
    /\ UNCHANGED workspace

\* variant: an error of uploadOutputFiles is only logged
UploadErrorLogged(w) ==
    /\ SetErr(w, "failed to upload output files")
    /\ pc' = [pc EXCEPT ![w] = "cleanup"]
    /\ UNCHANGED <<status, cur, timedOut, child>>

\* lines 207-209: the err of uploadOutputFiles is returned, wrapped
UploadFailed(w) == FailJob(w, "failed to upload output files")

\* Step 5: uploadOutputFiles through the output storage
Upload(w) ==
    /\ pc[w] = "upload"
    /\ \E ok \in BOOLEAN :
         IF ok /\ ~(UploadHonoursCtx /\ JobCtxDone(w))
           THEN Advance(w, "cleanup")
           ELSE UploadFailed(w)
    /\ UNCHANGED <<jobQueue, poolVars, accepted, dequeued, maxProcTicket>>
    /\ submitResult' = "none"
    /\ UNCHANGED encVars
    /\ UNCHANGED workspace

\* os.RemoveAll(jobTempDir): the directory is gone, or the call fails and the
\* directory stays
RemoveJobTemp(j) ==
    \E removed \in BOOLEAN :
        workspace' = [workspace EXCEPT ![j] = IF removed THEN FALSE ELSE @]

\* Step 5.5: os.RemoveAll of the job temp directory, an error is only logged
Cleanup(w) ==
    /\ pc[w] = "cleanup"
    /\ RemoveJobTemp(cur[w].job)
    /\ Advance(w, "notify")
    /\ UNCHANGED <<jobQueue, poolVars, accepted, dequeued, maxProcTicket>>
    /\ submitResult' = "none"
    /\ UNCHANGED encVars

\* variant: an error of sendNotifications is returned by executeConversion
NotifyErrorFatal(w, err) ==
    IF err = "" THEN Advance(w, "finish") ELSE FailJob(w, err)

\* lines 218-229: the err of sendNotifications is logged, executeConversion
\* goes on and returns nil
NotifyReturned(w, err) ==
    /\ SetErr(w, err)
    /\ pc' = [pc EXCEPT ![w] = "finish"]
    /\ UNCHANGED <<status, cur, timedOut, child>>

\* Step 6: sendNotifications, its error is only logged; executeConversion
\* returns nil
Notify(w) ==
    /\ pc[w] = "notify"
    /\ \E err \in {"", "failed to send notifications"} : NotifyReturned(w, err)
    /\ UNCHANGED <<jobQueue, poolVars, accepted, dequeued, maxProcTicket>>
    /\ submitResult' = "none"
    /\ UNCHANGED encVars
    /\ UNCHANGED workspace

\* variant: the success branch leaves the state as it is
MarkedCompletedKeepsState(st) ==
    [st EXCEPT !.progress = 100, !.completedAt = TRUE]

\* processJob lines 155-158: State, Progress, CompletedAt of the job
MarkedCompleted(st) ==
    [st EXCEPT !.state = JobStateCompleted,
               !.progress = 100,
               !.completedAt = TRUE]

\* processJob lines 155-159: State, Progress, CompletedAt, Message; return
CompleteJob(w) ==
    /\ pc[w] = "finish"
    /\ status' = [status EXCEPT ![cur[w].job] = MarkedCompleted(@)]
    /\ ReturnToLoop(w)
    /\ UNCHANGED <<callErr, jobQueue, poolVars, accepted, dequeued, maxProcTicket>>
    /\ submitResult' = "none"
    /\ UNCHANGED encVars
    /\ UNCHANGED workspace

\* ------------------------------------------------- runFFmpegWithProgress
\* variant: the reader passes the share of the frames still to come
progressPercentRemaining(frame, total) ==
    IF total > 0 THEN ((MaxFrame - frame) * 100) \div total ELSE 0

\* lines 218-221 of runFFmpegWithProgress: frame / totalFrames, or 0 when
\* totalFrames is not positive; in hundredths
progressPercent(frame, total) ==
    IF total > 0 THEN (frame * 100) \div total ELSE 0

\* progressCallback of executeConversion (lines 189-198): job.Status.Progress
\* is assigned the value computed by the reader
progressCallback(j, frame, total) ==
    status' = [status EXCEPT ![j].progress = progressPercent(frame, total)]

\* index of the reader whose pipe is still open for the ffmpeg of worker w
OpenReader(w) ==
    CHOOSE i \in 1..Len(readers) : readers[i].open /\ readers[i].worker = w

\* the sequence without its i-th element
RemoveAt(q, i) == SubSeq(q, 1, i - 1) \o SubSeq(q, i + 1, Len(q))

\* the encode loop is left: the loop counter is dropped
EncodeLoopLeft(w) == encodeNo' = [encodeNo EXCEPT ![w] = 0]

\* cmd.Start of ffmpeg and go func() { for scanner.Scan() ... }: no process
\* and no reader when ctx is done already
CmdStart(w) ==
    /\ pc[w] = "encode"
    /\ IF JobCtxDone(w)
         THEN /\ FailJob(w, "transcoding failed")
              /\ EncodeLoopLeft(w)
              /\ UNCHANGED readers
         ELSE /\ child' = [child EXCEPT ![w] = "ffmpeg"]
              /\ pc' = [pc EXCEPT ![w] = "encoding"]
              /\ SetErr(w, "")
              /\ readers' = Append(readers,
                               [job |-> cur[w].job, worker |-> w,
                                total |-> TotalFrames(cur[w].job),
                                last |-> 0, buf |-> <<>>, open |-> TRUE])
              /\ UNCHANGED <<status, cur, timedOut, encodeNo>>
    /\ UNCHANGED <<jobQueue, poolVars, workspace, accepted, dequeued, maxProcTicket>>
    /\ submitResult' = "none"

\* ffmpeg writes a progress line to stderr; the frame numbers of one run
\* increase
FfmpegProgressLine(w) ==
    /\ pc[w] = "encoding"
    /\ \E f \in 1..MaxFrame :
         /\ f > readers[OpenReader(w)].last
         /\ readers' = [readers EXCEPT ![OpenReader(w)] =
                          [@ EXCEPT !.last = f, !.buf = Append(@, f)]]
    /\ UNCHANGED <<status, jobQueue, poolVars, workspace, encodeNo, pc, cur, timedOut,
                   child, callErr, accepted, dequeued, maxProcTicket>>
    /\ submitResult' = "none"

\* the reader goroutine: scanner.Scan returns a line, parseProgress, the
\* callback is called with frame / totalFrames
ScannerScan(i) ==
    /\ i \in 1..Len(readers)
    /\ readers[i].buf # <<>>
    /\ progressCallback(readers[i].job, Head(readers[i].buf), readers[i].total)
    /\ readers' = [readers EXCEPT ![i] = [@ EXCEPT !.buf = Tail(@)]]
    /\ UNCHANGED <<jobQueue, poolVars, workspace, encodeNo, pc, cur, timedOut,
                   child, callErr, accepted, dequeued, maxProcTicket>>
    /\ submitResult' = "none"

\* the reader goroutine: scanner.Scan returns false (the pipe is closed and
\* nothing is buffered), the goroutine ends
ScannerEnd(i) ==
    /\ i \in 1..Len(readers)
    /\ ~readers[i].open
    /\ readers[i].buf = <<>>
    /\ readers' = RemoveAt(readers, i)
    /\ UNCHANGED <<status, jobQueue, poolVars, workspace, encodeNo, pc, cur, timedOut,
                   child, callErr, accepted, dequeued, maxProcTicket>>
    /\ submitResult' = "none"

\* cmd.Wait returns and closes the read side of the pipe: the lines the
\* scanner has not read yet are lost, the ones in its buffer are still
\* delivered; nobody waits for the reader.  Then the next profile is encoded,
\* or Transcode returns
CmdWait(w) ==
    /\ pc[w] = "encoding"
    /\ \E kept \in 0..Len(readers[OpenReader(w)].buf) :
         readers' = [readers EXCEPT ![OpenReader(w)] =
                       [@ EXCEPT !.open = FALSE, !.buf = SubSeq(@, 1, kept)]]
    /\ \E ok \in BOOLEAN :
         IF ok /\ ~JobCtxDone(w)
           THEN /\ child' = [child EXCEPT ![w] = "none"]
                /\ SetErr(w, "")
                /\ IF encodeNo[w] + 1 < Encodes(cur[w].job)
                     THEN /\ pc' = [pc EXCEPT ![w] = "encode"]
                          /\ encodeNo' = [encodeNo EXCEPT ![w] = @ + 1]
                     ELSE /\ pc' = [pc EXCEPT ![w] = "upload"]
                          /\ EncodeLoopLeft(w)
                /\ UNCHANGED <<status, cur, timedOut>>
           ELSE /\ FailJob(w, "transcoding failed")
                /\ EncodeLoopLeft(w)
    /\ UNCHANGED <<jobQueue, poolVars, workspace, accepted, dequeued, maxProcTicket>>
    /\ submitResult' = "none"

\* ------------------------------------------------------------------ Next
Next ==
    \/ \E j \in Jobs : SubmitJob(j)
    \/ StartSpawn
    \/ StartWait
    \/ CancelContext
    \/ StartCancel
    \/ StartClose
    \/ StartReturn
    \/ \E w \in WorkerIds : WorkerStop(w)
    \/ \E w \in WorkerIds : WorkerQueueClosed(w)
    \/ \E w \in WorkerIds : WorkerDequeue(w)
    \/ \E w \in WorkerIds : MarkProcessing(w)
    \/ \E w \in WorkerIds : LookupTemplate(w)
    \/ \E w \in WorkerIds : JobTimeout(w)
    \/ \E w \in WorkerIds : Download(w)
    \/ \E w \in WorkerIds : Validate(w)
    \/ \E w \in WorkerIds : StartProbe(w)
    \/ \E w \in WorkerIds : ProbeExit(w)
    \/ \E w \in WorkerIds : StartEncode(w)
    \/ \E w \in WorkerIds : EncodeExit(w)
    \/ \E w \in WorkerIds : Upload(w)
    \/ \E w \in WorkerIds : Cleanup(w)
    \/ \E w \in WorkerIds : Notify(w)
    \/ \E w \in WorkerIds : CompleteJob(w)

Spec == Init /\ [][Next]_vars

\* ------------------------------------------------- the encoder in detail
\* One worker, sources that exist, no cancellation and no deadline: the pool
\* with every encoder run, its progress lines and its reader goroutine.
ProgressInit ==
    /\ Init
    /\ MaxConcurrentJobs = 1
    /\ \A j \in Jobs : sourceExists[j]

ProgressNext ==
    \/ \E j \in Jobs : SubmitJob(j)
    \/ StartSpawn
    \/ StartWait
    \/ \E w \in WorkerIds : WorkerDequeue(w)
    \/ \E w \in WorkerIds : MarkProcessing(w)
    \/ \E w \in WorkerIds : LookupTemplate(w)
    \/ \E w \in WorkerIds : Download(w)
    \/ \E w \in WorkerIds : Validate(w)
    \/ \E w \in WorkerIds : StartProbe(w)
    \/ \E w \in WorkerIds : ProbeExit(w)
    \/ \E w \in WorkerIds : CmdStart(w)
    \/ \E w \in WorkerIds : FfmpegProgressLine(w)
    \/ \E i \in 1..MaxAccepted * MaxEncodes : ScannerScan(i)
    \/ \E i \in 1..MaxAccepted * MaxEncodes : ScannerEnd(i)
    \/ \E w \in WorkerIds : CmdWait(w)
    \/ \E w \in WorkerIds : Upload(w)
    \/ \E w \in WorkerIds : Cleanup(w)
    \/ \E w \in WorkerIds : Notify(w)
    \/ \E w \in WorkerIds : CompleteJob(w)

ProgressSpec == ProgressInit /\ [][ProgressNext]_vars

\* --------------------------------------------- the pool that is never cancelled
\* The steps of the goroutine of worker w: workerLoop and the processJob and
\* executeConversion it calls.  The deadline of the jobCtx is a timer, not a
\* step of the worker.
WorkerStep(w) ==
    \/ WorkerDequeue(w)
    \/ MarkProcessing(w)
    \/ LookupTemplate(w)
    \/ Download(w)
    \/ Validate(w)
    \/ StartProbe(w)
    \/ ProbeExit(w)
    \/ StartEncode(w)
    \/ EncodeExit(w)
    \/ Upload(w)
    \/ Cleanup(w)
    \/ Notify(w)
    \/ CompleteJob(w)

\* the context handed to Start is never cancelled: Start stays in
\* <-ctx.Done() and the queue stays open
RunningNext ==
    \/ \E j \in Jobs : SubmitJob(j)
    \/ StartSpawn
    \/ StartWait
    \/ \E w \in WorkerIds : JobTimeout(w)
    \/ \E w \in WorkerIds : WorkerStep(w)

\* The Go scheduler runs every goroutine that can run: Start gets through its
\* spawn loop, and a worker that can take a step takes one (every stage call
\* returns: a child process exits, by itself or killed at the deadline).
RunningFairness ==
    /\ WF_vars(StartSpawn)
    /\ \A w \in WorkerIds : WF_vars(WorkerStep(w))

RunningSpec == Init /\ [][RunningNext]_vars /\ RunningFairness

\* ------------------------------------------------ the pool with its receives
\* The pool of Spec, with a record of the jobs the workers have received from
\* the queue (the call variables hold it): what a job that "was never
\* dequeued" is can then be said of a state.
WorkerDequeueRecorded(w) ==
    /\ WorkerReceive(w)
    /\ result' = [result EXCEPT !.received = @ \cup {Head(jobQueue).job}]
    /\ UNCHANGED args

ShutdownInit ==
    /\ PoolInit
    /\ args = [fn |-> "Start"]
    /\ result = [done |-> FALSE, received |-> {}]

ShutdownNext ==
    \/ \E j \in Jobs : SubmitJob(j)
    \/ StartSpawn
    \/ StartWait
    \/ CancelContext
    \/ StartCancel
    \/ StartClose
    \/ StartReturn
    \/ \E w \in WorkerIds : WorkerStop(w)
    \/ \E w \in WorkerIds : WorkerQueueClosed(w)
    \/ \E w \in WorkerIds : WorkerDequeueRecorded(w)
    \/ \E w \in WorkerIds : MarkProcessing(w)
    \/ \E w \in WorkerIds : LookupTemplate(w)
    \/ \E w \in WorkerIds : JobTimeout(w)
    \/ \E w \in WorkerIds : Download(w)
    \/ \E w \in WorkerIds : Validate(w)
    \/ \E w \in WorkerIds : StartProbe(w)
    \/ \E w \in WorkerIds : ProbeExit(w)
    \/ \E w \in WorkerIds : StartEncode(w)
    \/ \E w \in WorkerIds : EncodeExit(w)
    \/ \E w \in WorkerIds : Upload(w)
    \/ \E w \in WorkerIds : Cleanup(w)
    \/ \E w \in WorkerIds : Notify(w)
    \/ \E w \in WorkerIds : CompleteJob(w)

ShutdownSpec == ShutdownInit /\ [][ShutdownNext]_vars

\* ------------------------------------------------------- library functions
\* everything but the call variables: a library call leaves the pool alone
jobVars == <<MaxConcurrentJobs, sourceExists, workspace, encodeNo, readers,
             callErr, status, jobQueue, queueClosed, ctxDone, wctxDone,
             startPc, spawned, wg, pc, cur, timedOut, child, submitResult,
             accepted, dequeued, maxProcTicket>>

\* the pool state the library functions are called in
CallInit ==
    /\ PoolInit
    /\ MaxConcurrentJobs = 1
    /\ \A j \in Jobs : sourceExists[j]
    /\ result = NoResult

\* ------------------------------------------------- storage backend factory
\* job.Source.Type as a client may write it
SourceTypes == {"local", "LOCAL", "http", "Http", "https", "HTTPS",
                "azure-blob", "Azure-Blob", "s3", "S3", "ftp", ""}

\* cfg.Storage.Type values that pass config validation
StorageTypes == {"local", "azure-blob", "s3"}

\* strings.ToLower on the source types above
ToLower(t) ==
    CASE t = "LOCAL" -> "local"
      [] t = "Http" -> "http"
      [] t = "HTTPS" -> "https"
      [] t = "Azure-Blob" -> "azure-blob"
      [] t = "S3" -> "s3"
      [] OTHER -> t

NoStorage == [variant |-> "nil", basePath |-> "", authenticated |-> FALSE]

NewLocalStorage(basePath) ==
    [variant |-> "local", basePath |-> basePath, authenticated |-> FALSE]

NewHTTPStorage ==
    [variant |-> "http", basePath |-> "", authenticated |-> FALSE]

\* the S3 backend is a stub: the constructor never fails
NewS3Storage ==
    [storage |-> [variant |-> "s3", basePath |-> "", authenticated |-> FALSE],
     err |-> ""]

\* the client is built only when an account key is configured, and building
\* it may fail
NewAzureStorage(accountKey, clientOK) ==
    IF accountKey /\ ~clientOK
    THEN [storage |-> NoStorage, err |-> "failed to initialize Azure client"]
    ELSE [storage |-> [variant |-> "azure-blob", basePath |-> "",
                       authenticated |-> accountKey],
          err |-> ""]

\* NewStorage: the backend of the outputs, chosen from cfg.Storage.Type
NewStorage(cfg) ==
    CASE cfg.storageType = "local" ->
            [storage |-> NewLocalStorage("outputs"), err |-> ""]
      [] cfg.storageType = "azure-blob" ->
            NewAzureStorage(cfg.accountKey, cfg.clientOK)
      [] cfg.storageType = "s3" -> NewS3Storage
      [] OTHER -> [storage |-> NoStorage, err |-> "unsupported storage type"]

\* variant: an unknown source type falls back to the backend of the outputs
UnsupportedSourceFallsBack(cfg) == NewStorage(cfg)

UnsupportedSource(cfg) ==
    [storage |-> NoStorage, err |-> "unsupported source type for download"]

NewDownloadOnlyStorage(sourceType, cfg) ==
    CASE sourceType = "local" ->
            [storage |-> NewLocalStorage(""), err |-> ""]
      [] sourceType = "azure-blob" ->
            NewAzureStorage(cfg.accountKey, cfg.clientOK)
      [] sourceType = "s3" -> NewS3Storage
      [] sourceType \in {"http", "https"} ->
            [storage |-> NewHTTPStorage, err |-> ""]
      [] OTHER -> UnsupportedSource(cfg)

\* the configuration fields the factory reads
FactoryConfigs ==
    [storageType : StorageTypes, accountKey : BOOLEAN, clientOK : BOOLEAN]

FactoryInputs ==
    [fn : {"downloadSourceFile"}, sourceType : SourceTypes,
     cfg : FactoryConfigs]

\* downloadSourceFile up to the choice of the backend
downloadSourceFile ==
    /\ args.fn = "downloadSourceFile"
    /\ ~result.done
    /\ LET sourceType == ToLower(args.sourceType)
           r == NewDownloadOnlyStorage(sourceType, args.cfg)
       IN  result' = [done |-> TRUE,
                      storage |-> r.storage,
                      err |-> IF r.err # ""
                              THEN "failed to create download storage"
                              ELSE ""]
    /\ UNCHANGED <<args, jobVars>>

FactoryInit == CallInit /\ args \in FactoryInputs

FactoryNext == downloadSourceFile

FactorySpec == FactoryInit /\ [][FactoryNext]_vars

\* ------------------------------------------------------------- Transcode
\* profiles as a template may declare them; nothing validates their names
P720 == [name |-> "720p", width |-> 1280, height |-> 720,
         videoBitrateKbps |-> 2500, audioBitrateKbps |-> 128]

P1080 == [name |-> "1080p", width |-> 1920, height |-> 1080,
          videoBitrateKbps |-> 5000, audioBitrateKbps |-> 128]

PBracket == [name |-> "hd[1]", width |-> 640, height |-> 360,
             videoBitrateKbps |-> 800, audioBitrateKbps |-> 0]

TemplateProfiles == {P720, P1080, PBracket}

\* the builtin catalog; an unknown name resolves to 720p
getProfileByName(profileName) ==
    CASE profileName = "240p" ->
            [name |-> "240p", width |-> 426, height |-> 240,
             videoBitrateKbps |-> 400, audioBitrateKbps |-> 64]
      [] profileName = "360p" ->
            [name |-> "360p", width |-> 640, height |-> 360,
             videoBitrateKbps |-> 800, audioBitrateKbps |-> 96]
      [] profileName = "480p" ->
            [name |-> "480p", width |-> 854, height |-> 480,
             videoBitrateKbps |-> 1200, audioBitrateKbps |-> 128]
      [] profileName = "1080p" -> P1080
      [] OTHER -> P720

\* sequences of at most n elements of S
RECURSIVE SeqsUpTo(_, _)
SeqsUpTo(S, n) ==
    IF n = 0 THEN {<<>>}
    ELSE LET shorter == SeqsUpTo(S, n - 1)
         IN  shorter \cup {Append(q, e) : q \in shorter, e \in S}

ProfileLists == SeqsUpTo(TemplateProfiles, MaxProfiles)

Containers == {"", "webm", "flv"}

\* output configurations of a template; the container is read by the
\* progressive packaging only
OutputConfigs ==
    {o \in [package : {"hls", "HLS", "progressive", "mp4", "dash"},
            profiles : ProfileLists,
            profile : {"", "1080p", "4k"},
            container : Containers] :
        /\ o.package \in {"hls", "HLS", "mp4", "dash"} => o.container = ""
        /\ o.package \in {"HLS", "mp4", "dash"} => o.profile = ""
        /\ o.package = "dash" => o.profiles = <<>>}

\* strings.ToLower on the package names above
PackageToLower(t) == IF t = "HLS" THEN "hls" ELSE t

\* The running call is kept in result: i and k are the output and the profile
\* being worked on, profs the profiles of that output, files what it has
\* collected, outputs the ConversionOutputs so far, exit how the last encoder
\* run ended.

\* an OutputFile: dir/stem.ext below the output directory (segments carry
\* their number as stem_NNN), and for the master playlist what was written
OutputFile(dir, stem, seg, ext, mimeType, content) ==
    [dir |-> dir, stem |-> stem, seg |-> seg, ext |-> ext,
     mimeType |-> mimeType, content |-> content]

\* variant: the variants sorted by descending bandwidth
createMasterPlaylistSorted(profiles) ==
    LET entry(pf) ==
            [bandwidth |-> (pf.videoBitrateKbps + pf.audioBitrateKbps) * 1000,
             name |-> pf.name,
             uri |-> [dir |-> pf.name, stem |-> pf.name, ext |-> "m3u8"]]
        swap == /\ Len(profiles) = 2
                /\ entry(profiles[1]).bandwidth < entry(profiles[2]).bandwidth
    IN  [i \in 1..Len(profiles) |->
            entry(profiles[IF swap THEN 3 - i ELSE i])]

\* one #EXT-X-STREAM-INF entry and one URI line per profile, as ranged over
createMasterPlaylist(profiles) ==
    [i \in 1..Len(profiles) |->
        [bandwidth |-> (profiles[i].videoBitrateKbps
                            + profiles[i].audioBitrateKbps) * 1000,
         name |-> profiles[i].name,
         uri |-> [dir |-> profiles[i].name, stem |-> profiles[i].name,
                  ext |-> "m3u8"]]]

getMimeType(container) ==
    CASE container = "mp4" -> "video/mp4"
      [] container = "webm" -> "video/webm"
      [] container = "mov" -> "video/quicktime"
      [] container = "avi" -> "video/x-msvideo"
      [] container = "mkv" -> "video/x-matroska"
      [] OTHER -> "video/mp4"

\* filepath.Glob(profileDir/NAME_*.ts) over the segments NAME_000.ts ...
\* that the encoder wrote: a '[' in NAME opens a character class, so the
\* pattern does not match the names it was built from
Glob(name, nseg) == IF name = "hd[1]" THEN 0 ELSE nseg

\* the call has returned an error: no result
TranscodeFailed(err) ==
    result' = [result EXCEPT !.done = TRUE, !.err = err, !.outputs = <<>>,
                             !.files = <<>>, !.profs = <<>>]

\* Transcode up to the loop over the outputs
Transcode ==
    /\ args.fn = "Transcode"
    /\ ~result.done
    /\ result.i = 0
    /\ \E infoOK \in BOOLEAN :
          IF ~infoOK
          THEN TranscodeFailed("failed to get input video info")
          ELSE IF Len(args.outputs) = 0
               THEN result' = [result EXCEPT !.done = TRUE]
               ELSE result' = [result EXCEPT !.i = 1]
    /\ UNCHANGED <<args, jobVars>>

\* processOutput and the packaging up to its first encoder invocation
processOutput ==
    /\ args.fn = "Transcode"
    /\ ~result.done
    /\ result.i > 0 /\ result.k = 0
    /\ LET output == args.outputs[result.i]
           package == PackageToLower(output.package)
           master == OutputFile("", "master", 0, "m3u8",
                                "application/vnd.apple.mpegurl",
                                createMasterPlaylist(output.profiles))
       IN  IF package \notin {"hls", "progressive", "mp4"}
           THEN TranscodeFailed("unsupported package type")
           ELSE IF Len(output.profiles) > 0
           THEN result' = [result EXCEPT
                    !.k = 1,
                    !.profs = output.profiles,
                    !.files = IF package = "hls" THEN <<master>> ELSE <<>>]
           ELSE IF output.profile # ""
           THEN result' = [result EXCEPT
                    !.k = 1,
                    !.profs = <<getProfileByName(output.profile)>>,
                    !.files = <<>>]
           ELSE TranscodeFailed("no profiles specified")
    /\ UNCHANGED <<args, jobVars>>

\* the current profile is done with these files: next profile, or the
\* output is complete, or Transcode returns
ProfileDone(files, exit) ==
    LET output == args.outputs[result.i]
        conv == [name |-> result.i,
                 type |-> IF PackageToLower(output.package) = "hls"
                          THEN "hls" ELSE "progressive",
                 profile |-> output.profile,
                 files |-> files]
    IN  IF result.k < Len(result.profs)
        THEN result' = [result EXCEPT !.k = @ + 1, !.files = files,
                                      !.exit = exit]
        ELSE result' = [result EXCEPT
                !.exit = exit,
                !.outputs = Append(@, conv),
                !.files = <<>>, !.profs = <<>>, !.k = 0,
                !.i = IF result.i < Len(args.outputs) THEN @ + 1 ELSE @,
                !.done = (result.i = Len(args.outputs))]

\* variant: a profile whose encode failed is skipped
ProfileFailedSkipped(files) == ProfileDone(files, "failed")

\* the encode of the current profile failed: the packaging, processOutput
\* and Transcode each return the error
ProfileFailed(files) ==
    result' = [result EXCEPT !.exit = "failed", !.done = TRUE,
                             !.err = "failed to process output",
                             !.outputs = <<>>, !.files = <<>>, !.profs = <<>>]

\* the playlist and the segments that the glob finds, in this order
RECURSIVE Segments(_, _)
Segments(name, n) ==
    IF n = 0 THEN <<>>
    ELSE Append(Segments(name, n - 1),
                OutputFile(name, name, n, "ts", "video/mp2t", <<>>))

transcodeHLSProfile ==
    /\ args.fn = "Transcode"
    /\ ~result.done
    /\ result.k > 0
    /\ PackageToLower(args.outputs[result.i].package) = "hls"
    /\ LET profile == result.profs[result.k]
           playlist == OutputFile(profile.name, profile.name, 0, "m3u8",
                                  "application/vnd.apple.mpegurl", <<>>)
       IN  \E exitOK \in BOOLEAN, nseg \in 1..MaxSegments :
              IF ~exitOK
              THEN /\ nseg = 1
                   /\ ProfileFailed(result.files)
              ELSE ProfileDone(result.files \o <<playlist>>
                                   \o Segments(profile.name,
                                               Glob(profile.name, nseg)),
                               "ok")
    /\ UNCHANGED <<args, jobVars>>

transcodeProgressiveProfile ==
    /\ args.fn = "Transcode"
    /\ ~result.done
    /\ result.k > 0
    /\ PackageToLower(args.outputs[result.i].package) \in {"progressive", "mp4"}
    /\ LET profile == result.profs[result.k]
           output == args.outputs[result.i]
           container == IF output.container = "" THEN "mp4"
                        ELSE output.container
           outputFile == OutputFile("", profile.name, 0, container,
                                    getMimeType(container), <<>>)
       IN  \E exitOK \in BOOLEAN :
              IF ~exitOK
              THEN ProfileFailed(result.files)
              ELSE ProfileDone(Append(result.files, outputFile), "ok")
    /\ UNCHANGED <<args, jobVars>>

TranscodeInputs ==
    [fn : {"Transcode"}, outputs : SeqsUpTo(OutputConfigs, MaxOutputs)]

TranscodeInit ==
    /\ PoolInit
    /\ MaxConcurrentJobs = 1
    /\ \A j \in Jobs : sourceExists[j]
    /\ args \in TranscodeInputs
    /\ result = [done |-> FALSE, err |-> "", outputs |-> <<>>, i |-> 0,
                 k |-> 0, profs |-> <<>>, files |-> <<>>, exit |-> ""]

TranscodeNext ==
    \/ Transcode
    \/ processOutput
    \/ transcodeHLSProfile
    \/ transcodeProgressiveProfile

TranscodeSpec == TranscodeInit /\ [][TranscodeNext]_vars

\* ----------------------------------------------------------- UploadFiles
\* the files of a batch; file n is staged at SourcePath(n) and goes to
\* DestinationPath(n), below the directory DestinationDir(n)
BatchFiles == 1..MaxFiles

SourcePath(n) == <<"source", n>>

DestinationPath(n) == <<"destination", n>>

DestinationDir(n) == <<"destination dir", n>>

NoError == [cause |-> "", paths |-> {}]

\* an error value: the innermost cause and the paths its text names
UploadError(cause, paths) == [cause |-> cause, paths |-> paths]

\* LocalStorage.UploadFile with copyFile: the os errors name the path of the
\* call that failed
LocalUploadFile(n) ==
    {NoError,
     UploadError("failed to create destination directory", {DestinationDir(n)}),
     UploadError("failed to open source file", {SourcePath(n)}),
     UploadError("failed to create destination file", {DestinationPath(n)}),
     UploadError("failed to copy file content", {SourcePath(n)}),
     UploadError("failed to copy file content", {DestinationPath(n)})}

\* AzureStorage.UploadFile: what the text of an SDK error names is not fixed
\* by this code
AzureUploadFile(n, client) ==
    IF ~client
    THEN {UploadError("azure client not initialized", {})}
    ELSE {NoError,
          UploadError("failed to open source file", {SourcePath(n)}),
          UploadError("failed to upload to Azure Blob", {}),
          UploadError("failed to upload to Azure Blob", {DestinationPath(n)})}

\* S3Storage.UploadFile is a placeholder
S3UploadFile(n) == {UploadError("S3 upload not yet implemented", {})}

UploadFile(backend, n) ==
    CASE backend.variant = "local" -> LocalUploadFile(n)
      [] backend.variant = "azure-blob" -> AzureUploadFile(n, backend.client)
      [] backend.variant = "s3" -> S3UploadFile(n)

\* "failed to upload file %s: %w" with the source path
WrapUploadError(n, err) ==
    UploadError(err.cause, {SourcePath(n)} \cup err.paths)

\* variant: the files are taken in the order of their paths
RangeNextSorted(remaining) ==
    {n \in remaining : \A m \in remaining : n <= m}

\* for sourcePath, destinationPath := range fileMap: the entries the range
\* over a map can yield next, any of those not yet yielded
RangeNext(remaining) == remaining

\* one round of the loop of UploadFiles: the range over the map yields the
\* files in no fixed order; the first error is returned
UploadFilesStep ==
    /\ args.fn = "UploadFiles"
    /\ ~result.done
    /\ \E n \in RangeNext(args.fileMap \ result.attempted) :
       \E err \in UploadFile(args.backend, n) :
          IF err = NoError
          THEN result' = [result EXCEPT
                            !.attempted = @ \cup {n},
                            !.uploaded = @ \cup {n},
                            !.done = (result.attempted \cup {n} = args.fileMap)]
          ELSE result' = [result EXCEPT
                            !.attempted = @ \cup {n},
                            !.failed = n,
                            !.err = WrapUploadError(n, err),
                            !.done = TRUE]
    /\ UNCHANGED <<args, jobVars>>

\* UploadFiles with an empty map returns nil at once
UploadFilesEmpty ==
    /\ args.fn = "UploadFiles"
    /\ ~result.done
    /\ args.fileMap = {}
    /\ result' = [result EXCEPT !.done = TRUE]
    /\ UNCHANGED <<args, jobVars>>

\* the storages NewStorage can return for the outputs
OutputBackends ==
    {[variant |-> "local", client |-> FALSE],
     [variant |-> "azure-blob", client |-> FALSE],
     [variant |-> "azure-blob", client |-> TRUE],
     [variant |-> "s3", client |-> FALSE]}

UploadInputs ==
    [fn : {"UploadFiles"}, backend : OutputBackends,
     fileMap : SUBSET BatchFiles]

UploadInit ==
    /\ PoolInit
    /\ MaxConcurrentJobs = 1
    /\ \A j \in Jobs : sourceExists[j]
    /\ args \in UploadInputs
    /\ result = [done |-> FALSE, err |-> NoError, failed |-> 0,
                 attempted |-> {}, uploaded |-> {}]

UploadNext ==
    \/ UploadFilesStep
    \/ UploadFilesEmpty

UploadSpec == UploadInit /\ [][UploadNext]_vars

\* ------------------------------------- one run of runFFmpegWithProgress
\* a line of stderr: a progress line with its frame count, or anything else
ProgressLine(frame) == [text |-> "progress", frame |-> frame]

OtherLine == [text |-> "other", frame |-> 0]

StderrLines == {OtherLine} \cup {ProgressLine(f) : f \in 0..MaxFrame}

\* parseProgress: nil unless the line has all the fields of a progress line
parseProgress(line) ==
    IF line.text = "progress" THEN [ok |-> TRUE, Frame |-> line.frame]
    ELSE [ok |-> FALSE, Frame |-> 0]

\* the frame counts of the progress lines of an output do not decrease
RECURSIVE FramesNonDecreasing(_, _)
FramesNonDecreasing(lines, floor) ==
    IF lines = <<>> THEN TRUE
    ELSE IF Head(lines).text # "progress"
    THEN FramesNonDecreasing(Tail(lines), floor)
    ELSE /\ Head(lines).frame >= floor
         /\ FramesNonDecreasing(Tail(lines), Head(lines).frame)

\* what the encoder would write, and the total the caller estimated
EncoderRuns ==
    [fn : {"runFFmpegWithProgress"},
     lines : {l \in SeqsUpTo(StderrLines, MaxLines) :
                 FramesNonDecreasing(l, 0)},
     totalFrames : 0..MaxTotalFrames]

\* ffmpeg writes its next line into the pipe
StderrWrite ==
    /\ args.fn = "runFFmpegWithProgress"
    /\ ~result.waited
    /\ result.next <= Len(args.lines)
    /\ result' = [result EXCEPT !.pipe = Append(@, args.lines[result.next]),
                                !.next = @ + 1]
    /\ UNCHANGED <<args, jobVars>>

\* one round of the reader goroutine: scanner.Scan, parseProgress, callback
ReaderScan ==
    /\ args.fn = "runFFmpegWithProgress"
    /\ ~result.done
    /\ result.pipe # <<>>
    /\ LET progress == parseProgress(Head(result.pipe))
       IN  result' = [result EXCEPT
                !.pipe = Tail(@),
                !.sink = IF progress.ok
                         THEN Append(@, progressPercent(progress.Frame,
                                                        args.totalFrames))
                         ELSE @]
    /\ UNCHANGED <<args, jobVars>>

\* cmd.Wait returns, ffmpeg having ended or been killed: the pipe is closed,
\* what the scanner had not read is lost
WaitReturn ==
    /\ args.fn = "runFFmpegWithProgress"
    /\ ~result.waited
    /\ \E kept \in 0..Len(result.pipe) :
          result' = [result EXCEPT !.waited = TRUE,
                                   !.pipe = SubSeq(@, 1, kept)]
    /\ UNCHANGED <<args, jobVars>>

\* scanner.Scan returns false, the goroutine ends
ReaderReturn ==
    /\ args.fn = "runFFmpegWithProgress"
    /\ result.waited /\ ~result.done
    /\ result.pipe = <<>>
    /\ result' = [result EXCEPT !.done = TRUE]
    /\ UNCHANGED <<args, jobVars>>

EncoderInit ==
    /\ PoolInit
    /\ MaxConcurrentJobs = 1
    /\ \A j \in Jobs : sourceExists[j]
    /\ args \in EncoderRuns
    /\ result = [done |-> FALSE, waited |-> FALSE, next |-> 1,
                 pipe |-> <<>>, sink |-> <<>>]

EncoderNext ==
    \/ StderrWrite
    \/ ReaderScan
    \/ WaitReturn
    \/ ReaderReturn

EncoderSpec == EncoderInit /\ [][EncoderNext]_vars

\* ------------------------------------------------ staging of the outputs
\* profile names and output names a template may give; no name is reserved
StagedProfileNames == {"720p", "master"}

StagedOutputNames == {"web", "tv"}

\* the files Transcode reports for one output whose encodes succeeded, one
\* segment per rendition
RECURSIVE HLSProfileFiles(_)
HLSProfileFiles(names) ==
    IF names = <<>> THEN <<>>
    ELSE <<OutputFile(Head(names), Head(names), 0, "m3u8",
                      "application/vnd.apple.mpegurl", <<>>)>>
         \o Segments(Head(names), 1)
         \o HLSProfileFiles(Tail(names))

ProducedFiles(type, names) ==
    IF type = "hls"
    THEN <<OutputFile("", "master", 0, "m3u8",
                      "application/vnd.apple.mpegurl", <<>>)>>
         \o HLSProfileFiles(names)
    ELSE [n \in 1..Len(names) |->
            OutputFile("", names[n], 0, "mp4", getMimeType("mp4"), <<>>)]

\* the ConversionOutputs of a TranscodeResult
StagedOutputs ==
    {[name |-> nm, type |-> ty, files |-> ProducedFiles(ty, pn)] :
        nm \in StagedOutputNames, ty \in {"hls", "progressive"},
        pn \in SeqsUpTo(StagedProfileNames, MaxProfiles) \ {<<>>}}

\* file.Path below the job temp directory, and filepath.Base of it
FilePath(output, file) == <<output.name, file.dir, file.stem, file.seg, file.ext>>

Base(file) == <<file.stem, file.seg, file.ext>>

\* filepath.Join(job.JobID, output.Name, filepath.Base(file.Path))
DestByName(output, file) == <<"JobID", output.name, Base(file)>>

\* filepath.Join(outputsDir, output.Type, filepath.Base(file.Path))
DestByType(output, file) == <<"JobID", output.type, Base(file)>>

\* the destination of a file by the helper that stages it
Dest(helper, output, file) ==
    IF helper = "uploadOutputFiles" THEN DestByName(output, file)
    ELSE DestByType(output, file)

\* the (path, destination) pairs a helper makes of a result
FileMapOf(outputs, helper) ==
    UNION {{<<FilePath(outputs[i], outputs[i].files[n]),
              Dest(helper, outputs[i], outputs[i].files[n])>> :
               n \in 1..Len(outputs[i].files)} : i \in 1..Len(outputs)}

\* uploadOutputFiles of the storage interface: the file map is built, then
\* handed to UploadFiles of the output storage
uploadOutputFiles ==
    /\ args.fn = "uploadOutputFiles"
    /\ ~result.done
    /\ result' = [done |-> TRUE, fileMap |-> FileMapOf(args.outputs, "uploadOutputFiles")]
    /\ UNCHANGED <<args, jobVars>>

\* the other uploadOutputFiles, which stages through copyOutputFilesToLocal:
\* every file is copied below the directory of its output type
copyOutputFilesToLocal ==
    /\ args.fn = "copyOutputFilesToLocal"
    /\ ~result.done
    /\ result' = [done |-> TRUE, fileMap |-> FileMapOf(args.outputs, "copyOutputFilesToLocal")]
    /\ UNCHANGED <<args, jobVars>>

\* both helpers are in the worker package; the outputs of one result have
\* different names
StagingInputs ==
    {a \in [fn : {"uploadOutputFiles", "copyOutputFilesToLocal"},
            outputs : SeqsUpTo(StagedOutputs, MaxOutputs)] :
        \A i, k \in 1..Len(a.outputs) :
            i # k => a.outputs[i].name # a.outputs[k].name}

StagingInit ==
    /\ PoolInit
    /\ MaxConcurrentJobs = 1
    /\ \A j \in Jobs : sourceExists[j]
    /\ args \in StagingInputs
    /\ result = [done |-> FALSE, fileMap |-> {}]

StagingNext ==
    \/ uploadOutputFiles
    \/ copyOutputFilesToLocal

StagingSpec == StagingInit /\ [][StagingNext]_vars

-----------------------------------------------------------------------------
\* validateSourceFile and the step of executeConversion that calls it.
\*
\* Sizes are int64 and the ceiling is an int; the ceiling in bytes is the
\* int64 product maxSizeGB*1024*1024*1024, which wraps.  The model keeps the
\* arithmetic and scales the numbers: a word has IntBits bits, a gigabyte is
\* BytesPerGB units.

IntBits == 4

BytesPerGB == 2

RECURSIVE Pow2(_)
Pow2(n) == IF n = 0 THEN 1 ELSE 2 * Pow2(n - 1)

MaxInt == Pow2(IntBits - 1) - 1

\* two's complement value of an integer in a word of IntBits bits
WrapInt(x) ==
    LET m == x % Pow2(IntBits)
    IN  IF m > MaxInt THEN m - Pow2(IntBits) ELSE m

\* variant: the ceiling is compared whatever its sign
CeilingAlwaysApplies(maxSizeGB) == TRUE

\* maxSizeGB > 0
CeilingApplies(maxSizeGB) == maxSizeGB > 0

\* the error validateSourceFile returns for a file ("" is nil)
validateSourceFileErr(exists, size, maxSizeGB) ==
    IF ~exists THEN "cannot access source file"
    ELSE IF size = 0 THEN "source file is empty"
    ELSE IF /\ CeilingApplies(maxSizeGB)
            /\ size > WrapInt(maxSizeGB * BytesPerGB)
         THEN "source file size exceeds maximum allowed"
    ELSE ""

\* Step 2 of executeConversion: the call of validateSourceFile
validateSourceFile ==
    /\ args.fn = "executeConversion"
    /\ result.at = "validate"
    /\ result' = [result EXCEPT
                    !.at = "validated",
                    !.verr = validateSourceFileErr(args.exists, args.size,
                                                   args.MaxTempDiskGB)]
    /\ UNCHANGED <<args, jobVars>>

\* if err != nil: executeConversion returns the wrapped error
ValidationFailedReturn ==
    /\ args.fn = "executeConversion"
    /\ result.at = "validated"
    /\ result.verr # ""
    /\ result' = [result EXCEPT !.at = "returned", !.done = TRUE,
                                !.err = "source file validation failed"]
    /\ UNCHANGED <<args, jobVars>>

\* otherwise Step 4 calls Transcode
ValidatedTranscode ==
    /\ args.fn = "executeConversion"
    /\ result.at = "validated"
    /\ result.verr = ""
    /\ result' = [result EXCEPT !.at = "transcode", !.done = TRUE,
                                !.transcodeStarted = TRUE]
    /\ UNCHANGED <<args, jobVars>>

\* the downloaded file as os.Stat finds it, and the configured ceiling
ValidateInputs ==
    [fn : {"executeConversion"}, exists : BOOLEAN, size : 0..MaxInt,
     MaxTempDiskGB : -1..MaxInt]

ValidateInit ==
    /\ PoolInit
    /\ MaxConcurrentJobs = 1
    /\ \A j \in Jobs : sourceExists[j]
    /\ args \in ValidateInputs
    /\ result = [done |-> FALSE, at |-> "validate", verr |-> "", err |-> "",
                 transcodeStarted |-> FALSE]

ValidateNext ==
    \/ validateSourceFile
    \/ ValidationFailedReturn
    \/ ValidatedTranscode

ValidateSpec == ValidateInit /\ [][ValidateNext]_vars

-----------------------------------------------------------------------------
\* parseFrameRate.  A frame rate string is a sequence of characters; a
\* float64 is kept as an exact fraction num/den (den = 0 stands for the
\* result of a division by zero).  The strings are made of digits, the
\* point, the slash and a letter; signs, exponents and the words ParseFloat
\* knows (inf, nan) are not among them.

MaxChars == 4

Digits == {"0", "1", "2"}

FrameRateChars == Digits \cup {".", "/", "x"}

DigitValue(c) == CASE c = "0" -> 0 [] c = "1" -> 1 [] c = "2" -> 2

Fraction(num, den) == [num |-> num, den |-> den]

\* strings.Contains(s, "/")
ContainsSlash(s) == \E i \in 1..Len(s) : s[i] = "/"

\* strings.Split(s, "/")
RECURSIVE SplitSlash(_)
SplitSlash(s) ==
    IF ~ContainsSlash(s) THEN <<s>>
    ELSE LET i == CHOOSE k \in 1..Len(s) :
                     s[k] = "/" /\ \A m \in 1..(k - 1) : s[m] # "/"
         IN  <<SubSeq(s, 1, i - 1)>> \o SplitSlash(SubSeq(s, i + 1, Len(s)))

\* strconv.ParseFloat(s, 64), reading s from the left as readFloat does:
\* digits with at most one point and at least one digit; anything else is a
\* syntax error (err # nil)
RECURSIVE ReadFloat(_, _, _, _, _, _)
ReadFloat(s, i, mantissa, scale, sawdot, sawdigits) ==
    IF i > Len(s)
    THEN [ok |-> sawdigits, val |-> Fraction(mantissa, scale)]
    ELSE IF s[i] = "."
    THEN IF sawdot THEN [ok |-> FALSE, val |-> Fraction(0, 1)]
         ELSE ReadFloat(s, i + 1, mantissa, scale, TRUE, sawdigits)
    ELSE IF s[i] \in Digits
    THEN ReadFloat(s, i + 1, mantissa * 10 + DigitValue(s[i]),
                   IF sawdot THEN scale * 10 ELSE scale, sawdot, TRUE)
    ELSE [ok |-> FALSE, val |-> Fraction(0, 1)]

ParseFloat(s) ==
    LET f == ReadFloat(s, 1, 0, 1, FALSE, FALSE)
    IN  IF f.ok THEN f ELSE [ok |-> FALSE, val |-> Fraction(0, 1)]

\* num / den
Divide(num, den) == Fraction(num.num * den.den, num.den * den.num)

\* variant: the denominator is not looked at
DenominatorUnchecked(den) == TRUE

\* den != 0
DenominatorNotZero(den) == den.num # 0

\* the float64 parseFrameRate returns, and the divisor of the division it
\* made, if it made one
parseFrameRateResult(frameRateStr) ==
    LET none == [rate |-> Fraction(0, 1), divided |-> FALSE,
                 divisor |-> Fraction(1, 1)]
    IN  IF ContainsSlash(frameRateStr)
        THEN LET parts == SplitSlash(frameRateStr)
             IN  IF Len(parts) = 2
                 THEN LET num == ParseFloat(parts[1])
                          den == ParseFloat(parts[2])
                      IN  IF num.ok /\ den.ok /\ DenominatorNotZero(den.val)
                          THEN [rate |-> Divide(num.val, den.val),
                                divided |-> TRUE, divisor |-> den.val]
                          ELSE none
                 ELSE none
        ELSE LET rate == ParseFloat(frameRateStr)
             IN  IF rate.ok THEN [none EXCEPT !.rate = rate.val] ELSE none

parseFrameRate ==
    /\ args.fn = "parseFrameRate"
    /\ ~result.done
    /\ LET r == parseFrameRateResult(args.frameRateStr)
       IN  result' = [done |-> TRUE, rate |-> r.rate, divided |-> r.divided,
                      divisor |-> r.divisor]
    /\ UNCHANGED <<args, jobVars>>

FrameRateInputs ==
    [fn : {"parseFrameRate"}, frameRateStr : SeqsUpTo(FrameRateChars, MaxChars)]

FrameRateInit ==
    /\ PoolInit
    /\ MaxConcurrentJobs = 1
    /\ \A j \in Jobs : sourceExists[j]
    /\ args \in FrameRateInputs
    /\ result = [done |-> FALSE, rate |-> Fraction(0, 1), divided |-> FALSE,
                 divisor |-> Fraction(1, 1)]

FrameRateNext == parseFrameRate

FrameRateSpec == FrameRateInit /\ [][FrameRateNext]_vars

TypeOK ==
    /\ \A j \in Jobs : status[j].state \in JobStates
    /\ Len(jobQueue) <= QueueCap + 1
    /\ wg \in 0..(MaxPoolSize + 1)


\* ================================================================ claims
Terminal == {JobStateCompleted, JobStateFailed}

ProcessingJobs == {j \in Jobs : status[j].state = JobStateProcessing}

SpawnedWorkers == {w \in WorkerIds : pc[w] # "notstarted"}

\* the step is a SubmitJob call
SubmitStep == submitResult' # "none"

\* C1: every SubmitJob call returns at once; on a queue that holds QueueCap
\* jobs it returns the queue-full error and leaves the queue alone, on any
\* other queue it appends the job, leaves it pending and returns nil.
C1_SubmitJobFullOrEnqueued ==
    [][SubmitStep =>
         IF Len(jobQueue) >= QueueCap
           THEN submitResult' = "full" /\ jobQueue' = jobQueue
           ELSE /\ submitResult' = "ok"
                /\ Len(jobQueue') = Len(jobQueue) + 1
                /\ status'[jobQueue'[Len(jobQueue')].job].state = JobStatePending]_vars

\* C2: the state of a job object only goes from pending to processing and from
\* processing to completed or failed (and from the zero value to pending when
\* it is first submitted).
C2_StateOnlyMovesForward ==
    [][\A j \in Jobs :
         status'[j].state # status[j].state =>
           <<status[j].state, status'[j].state>> \in
             {<<JobStateNone, JobStatePending>>,
              <<JobStatePending, JobStateProcessing>>,
              <<JobStateProcessing, JobStateCompleted>>,
              <<JobStateProcessing, JobStateFailed>>}]_vars

\* C3: completedAt is set exactly when the state is completed or failed.
C3_CompletedAtIffTerminal ==
    \A j \in Jobs : status[j].completedAt <=> status[j].state \in Terminal

\* C4: Start launches exactly MaxConcurrentJobs workers, and never more than
\* MaxConcurrentJobs jobs are executed or in state processing at a time.
C4_AtMostPoolSizeProcessing ==
    /\ Cardinality(SpawnedWorkers) <= MaxConcurrentJobs
    /\ startPc # "spawn" => Cardinality(SpawnedWorkers) = MaxConcurrentJobs
    /\ Cardinality({w \in WorkerIds : pc[w] \in JobStages}) <= MaxConcurrentJobs
    /\ Cardinality(ProcessingJobs) <= MaxConcurrentJobs

\* C4 witness: every worker is busy with a job in state processing while
\* another job waits in the queue.
C4_Witness ==
    /\ Cardinality(ProcessingJobs) = MaxConcurrentJobs
    /\ jobQueue # <<>>
    /\ \E j \in Jobs : status[j].state = JobStatePending

\* C5: the queue never holds more than 2 * MaxConcurrentJobs jobs, and a
\* SubmitJob call returns the queue-full error only when it finds exactly
\* 2 * MaxConcurrentJobs jobs waiting.
C5_QueueBoundedRejectOnlyWhenFull ==
    [][/\ Len(jobQueue') <= 2 * MaxConcurrentJobs
       /\ submitResult' = "full" => Len(jobQueue) = 2 * MaxConcurrentJobs]_vars

\* C5 witness: a call has just been rejected on a queue of 2 * MaxConcurrentJobs.
C5_Witness ==
    /\ submitResult = "full"
    /\ Len(jobQueue) = 2 * MaxConcurrentJobs

\* C6 as claimed: a job never enters processing before a job that was accepted
\* earlier, so no job that is received or still waiting has a smaller ticket
\* than a job that has entered processing.
C6_ProcessingInAcceptanceOrder ==
    /\ \A w \in WorkerIds : pc[w] = "received" => cur[w].ticket > maxProcTicket
    /\ \A i \in 1..Len(jobQueue) : jobQueue[i].ticket > maxProcTicket

\* C6 amended: jobs are received from the queue in the order in which their
\* SubmitJob calls were accepted: the n-th receive gets the n-th accepted job.
C6_ReceivedInAcceptanceOrder ==
    [][dequeued' # dequeued =>
         \E w \in WorkerIds :
            /\ pc[w] = "select"
            /\ pc'[w] = "received"
            /\ cur'[w].ticket = dequeued + 1]_vars

\* C6 witness: two accepted jobs have both been received.
C6_Witness ==
    /\ accepted >= 2
    /\ dequeued >= 2

\* C7: when a job leaves the pipeline before its last step it is marked failed
\* with an error, its worker is back in the select of workerLoop, and no other
\* job status and no other worker changes.
C7_FailureIsolated ==
    [][\A w \in WorkerIds :
         (pc[w] \in JobStages \ {"finish"} /\ pc'[w] \notin JobStages) =>
            /\ status'[cur[w].job].state = JobStateFailed
            /\ status'[cur[w].job].error # ""
            /\ pc'[w] = "select"
            /\ wg' = wg
            /\ \A j \in Jobs \ {cur[w].job} : status'[j] = status[j]
            /\ \A v \in WorkerIds \ {w} : pc'[v] = pc[v] /\ cur'[v] = cur[v]]_vars

\* C7 witness: with a single worker, one job has failed and the worker is
\* processing another one.
C7_Witness ==
    /\ MaxConcurrentJobs = 1
    /\ \E j, k \in Jobs :
          /\ j # k
          /\ status[j].state = JobStateFailed
          /\ status[k].state = JobStateProcessing
          /\ \E w \in WorkerIds : pc[w] \in CtxStages /\ cur[w].job = k

\* C8: once Start has returned, the contexts are cancelled, every worker has
\* exited, no job is in state processing and no child process is running.
C8_StartReturnsAfterWorkers ==
    startPc = "returned" =>
        /\ ctxDone
        /\ wctxDone
        /\ \A w \in WorkerIds : pc[w] \in {"notstarted", "exited"}
        /\ \A w \in WorkerIds : child[w] = "none"
        /\ ProcessingJobs = {}

\* C8 witness: Start has returned after the pool has run jobs.
C8_Witness ==
    /\ startPc = "returned"
    /\ dequeued > 0
    /\ \E j \in Jobs : status[j].state \in Terminal

\* C9: once w.ctx is cancelled no worker receives a job from the queue.
C9_NoDequeueAfterCancel ==
    [][wctxDone => dequeued' = dequeued]_vars

\* C10: a job whose jobCtx is done (pool cancelled or deadline passed while
\* it was being processed) is never marked completed.
C10_InterruptedJobNeverCompleted ==
    [][\A w \in WorkerIds :
         (/\ pc[w] \in JobStages
          /\ pc'[w] \notin JobStages
          /\ status'[cur[w].job].state = JobStateCompleted) => ~JobCtxDone(w)]_vars

\* the worker has a job in hand in this state and has returned from
\* processJob in the next
Finishes(w) == pc[w] \in JobStages /\ pc'[w] \notin JobStages

\* C11: when processJob returns, with the job completed or failed, the job
\* temp directory {TempDir}/{JobID} does not exist.
C11_WorkspaceRemovedAtTerminal ==
    [][\A w \in WorkerIds :
         Finishes(w) => ~workspace'[cur[w].job]]_vars

\* the local jobs whose source file does not exist
MissingLocal == {j \in StatJobs : ~sourceExists[j]}

\* C12: a job with a local source that does not exist never gets past the
\* download, never has a job temp directory, and the download step marks it
\* failed with a non-empty error.
C12_MissingLocalSourceFails ==
    [][/\ \A j \in MissingLocal :
            /\ ~workspace[j]
            /\ status[j].state # JobStateCompleted
       /\ \A w \in WorkerIds :
            (pc[w] \in CtxStages /\ cur[w].job \in MissingLocal) =>
               /\ pc[w] = "download"
               /\ pc'[w] # pc[w] =>
                    /\ pc'[w] \notin JobStages
                    /\ status'[cur[w].job].state = JobStateFailed
                    /\ status'[cur[w].job].error # ""
                    /\ ~workspace'[cur[w].job]]_vars

\* C12 witness: a job with a missing local source has been run and is failed
\* with the download error, and no job temp directory exists.
C12_Witness ==
    \E j \in MissingLocal :
        /\ status[j].state = JobStateFailed
        /\ status[j].error = "failed to download source file"
        /\ ~workspace[j]
        /\ \E w \in WorkerIds : pc[w] = "select" /\ callErr[w] = status[j].error

\* the jobs whose template name is not in the catalog
NoTemplate == {j \in Jobs : ~TemplateExists(j)}

\* C16: a job whose template is missing is marked failed with an error and
\* completedAt by the lookup step itself; its worker never reaches a stage of
\* executeConversion with it, and it never has a job temp directory.
C16_MissingTemplateFailsEarly ==
    [][/\ \A j \in NoTemplate : ~workspace[j]
       /\ \A w \in WorkerIds :
            cur[w].job \in NoTemplate =>
               /\ pc[w] \notin CtxStages
               /\ (pc[w] = "lookup" /\ pc'[w] # pc[w]) =>
                    /\ pc'[w] \notin JobStages
                    /\ status'[cur[w].job].state = JobStateFailed
                    /\ status'[cur[w].job].error # ""
                    /\ status'[cur[w].job].completedAt
                    /\ workspace' = workspace]_vars

\* C16 witness: a job without a template has been run and is failed.
C16_Witness ==
    \E j \in NoTemplate :
        /\ status[j].state = JobStateFailed
        /\ status[j].error = "template not found"
        /\ status[j].completedAt
        /\ ~workspace[j]

\* C17: when uploadOutputFiles returns an error the job is marked failed with
\* the upload error and processJob returns; the job is not completed.
C17_UploadFailureFailsJob ==
    [][\A w \in WorkerIds :
         (pc[w] = "upload" /\ callErr'[w] = "failed to upload output files") =>
            /\ pc'[w] \notin JobStages
            /\ status'[cur[w].job].state = JobStateFailed
            /\ status'[cur[w].job].error = "failed to upload output files"]_vars

\* C17 witness: a job is failed with the upload error after its transcode.
C17_Witness ==
    \E j \in Jobs, w \in WorkerIds :
        /\ status[j].state = JobStateFailed
        /\ status[j].error = "failed to upload output files"
        /\ pc[w] = "select"
        /\ callErr[w] = "failed to upload output files"

\* C18: whatever sendNotifications returns, the job goes on to the last step
\* with its status untouched, and the last step marks it completed.
C18_NotificationNeverFatal ==
    [][\A w \in WorkerIds :
         /\ (pc[w] = "notify" /\ pc'[w] # pc[w]) =>
               /\ pc'[w] = "finish"
               /\ status' = status
         /\ (pc[w] = "finish" /\ pc'[w] # pc[w]) =>
               /\ status'[cur[w].job].state = JobStateCompleted
               /\ status'[cur[w].job].error = status[cur[w].job].error]_vars

\* C18 witness: the single worker is back in its loop after a job whose
\* notification failed, and a job is completed.
C18_Witness ==
    /\ MaxConcurrentJobs = 1
    /\ pc[1] = "select"
    /\ callErr[1] = "failed to send notifications"
    /\ \E j \in Jobs : status[j].state = JobStateCompleted

\* C19: a job is in state failed exactly when its error is non-empty.
C19_FailedIffError ==
    \A j \in Jobs : status[j].state = JobStateFailed <=> status[j].error # ""

C13_CompletedProgressIsOne ==
    \A j \in Jobs : status[j].state = JobStateCompleted => status[j].progress = 100

\* C14: the progress of every job is within [0, 1] (0 to 100 hundredths).
C14_ProgressWithinUnitInterval ==
    \A j \in Jobs : status[j].progress \in 0..100

\* C15: from the moment a job is in state processing until it is completed
\* or failed, no step lowers its progress.
C15_ProgressMonotone ==
    [][\A j \in Jobs :
         (/\ status[j].state = JobStateProcessing
          /\ status'[j].state \in {JobStateProcessing, JobStateCompleted, JobStateFailed})
            => status'[j].progress >= status[j].progress]_vars

KnownSourceTypes == {"local", "http", "https", "azure-blob", "s3"}

\* the backend variant each known source type stands for
VariantOf(t) == IF t \in {"http", "https"} THEN "http" ELSE t

\* C21: the backend used for the download depends on the job's source type
\* only: whatever storage type is configured for the outputs, the call returns
\* what it returns for every other configured storage type; a known source type
\* gives its own backend variant or an error, never another variant; an unknown
\* source type gives an error and no backend.
C21_DownloadBackendFromSourceTypeOnly ==
    (args.fn = "downloadSourceFile" /\ result.done) =>
        LET t == ToLower(args.sourceType) IN
        /\ \A st \in StorageTypes :
              LET r == NewDownloadOnlyStorage(t,
                            [args.cfg EXCEPT !.storageType = st])
              IN  /\ r.storage = result.storage
                  /\ (r.err = "") = (result.err = "")
        /\ t \in KnownSourceTypes =>
              \/ result.err = "" /\ result.storage.variant = VariantOf(t)
              \/ result.err # "" /\ result.storage = NoStorage
        /\ t \notin KnownSourceTypes =>
              result.err # "" /\ result.storage = NoStorage

\* an http source was given its own backend although the outputs go elsewhere
C21_Witness ==
    /\ args.fn = "downloadSourceFile" /\ result.done
    /\ args.sourceType = "HTTPS"
    /\ args.cfg.storageType = "s3"
    /\ result.err = ""
    /\ result.storage.variant = "http"

\* an unknown source type was refused
C21_WitnessUnknown ==
    /\ args.fn = "downloadSourceFile" /\ result.done
    /\ args.sourceType = "ftp"
    /\ result.err # ""

\* the number of entries of a file list that satisfy a test
CountFiles(files, Test(_)) ==
    Cardinality({n \in 1..Len(files) : Test(files[n])})

IsMaster(f) == f.dir = "" /\ f.stem = "master" /\ f.ext = "m3u8"

IsProfileManifest(f) == f.dir # "" /\ f.ext = "m3u8"

\* the HLS outputs with a profile ladder that Transcode returned
LadderOutputs ==
    {i \in 1..Len(result.outputs) :
        /\ PackageToLower(args.outputs[i].package) = "hls"
        /\ Len(args.outputs[i].profiles) >= 1}

\* C22: an HLS output with N >= 1 profiles whose encodes all succeeded holds
\* exactly one master manifest, exactly N profile manifests and, for every
\* profile, at least one segment file.
C22_HLSOutputFileCounts ==
    (args.fn = "Transcode" /\ result.done /\ result.err = "") =>
        \A i \in LadderOutputs :
            LET files == result.outputs[i].files
                profiles == args.outputs[i].profiles
            IN  /\ CountFiles(files, IsMaster) = 1
                /\ CountFiles(files, IsProfileManifest) = Len(profiles)
                /\ \A k \in 1..Len(profiles) :
                      \E n \in 1..Len(files) :
                          /\ files[n].ext = "ts"
                          /\ files[n].dir = profiles[k].name

\* the registered media type of each container a template may declare
ContainerMediaType(container) ==
    CASE container = "mp4" -> "video/mp4"
      [] container = "webm" -> "video/webm"
      [] container = "flv" -> "video/x-flv"

\* the progressive outputs with a single profile name that Transcode returned
SingleProgressiveOutputs ==
    {i \in 1..Len(result.outputs) :
        /\ PackageToLower(args.outputs[i].package) \in {"progressive", "mp4"}
        /\ args.outputs[i].profiles = <<>>
        /\ args.outputs[i].profile # ""}

\* C23: a progressive output with no profiles list and a single profile name
\* holds, on success, exactly one file, whose extension and MIME type are
\* those of the declared container, or of mp4 when none is declared.
C23_SingleProgressiveFile ==
    (args.fn = "Transcode" /\ result.done /\ result.err = "") =>
        \A i \in SingleProgressiveOutputs :
            LET files == result.outputs[i].files
                declared == IF args.outputs[i].container = "" THEN "mp4"
                            ELSE args.outputs[i].container
            IN  /\ Len(files) = 1
                /\ files[1].ext = declared
                /\ files[1].mimeType = ContainerMediaType(declared)

\* C28: when the encode of a profile fails, Transcode returns an error and no
\* result, so no ConversionOutput of the output whose profile failed, whatever
\* was encoded before it.
C28_ProfileFailureAbortsTranscode ==
    (args.fn = "Transcode" /\ result.exit = "failed") =>
        /\ result.done
        /\ result.err # ""
        /\ result.outputs = <<>>

\* the second profile of the second output failed after three good encodes
C28_Witness ==
    /\ args.fn = "Transcode"
    /\ result.exit = "failed"
    /\ result.i = 2 /\ result.k = 2
    /\ Len(args.outputs[1].profiles) = 2
    /\ result.done /\ result.err # "" /\ result.outputs = <<>>

\* the master manifest of a file list, if it starts with one
MasterOf(files) == IF files # <<>> /\ IsMaster(files[1]) THEN files[1].content
                   ELSE <<>>

\* the master manifest lists these profiles, one entry each, in this order
ListsInOrder(master, profiles) ==
    /\ Len(master) = Len(profiles)
    /\ \A n \in 1..Len(profiles) :
          /\ master[n].name = profiles[n].name
          /\ master[n].bandwidth = (profiles[n].videoBitrateKbps
                                      + profiles[n].audioBitrateKbps) * 1000
          /\ master[n].uri = [dir |-> profiles[n].name,
                              stem |-> profiles[n].name, ext |-> "m3u8"]

\* C30: the master manifest has exactly one entry per profile, in the order
\* the template declares the profiles, neither sorted nor de-duplicated, each
\* with bandwidth (videoBitrateKbps + audioBitrateKbps) x 1000 and the path
\* of that profile's own manifest.
C30_MasterListsProfilesInDeclaredOrder ==
    args.fn = "Transcode" =>
        /\ \A i \in LadderOutputs :
              /\ CountFiles(result.outputs[i].files, IsMaster) = 1
              /\ ListsInOrder(MasterOf(result.outputs[i].files),
                              args.outputs[i].profiles)
        /\ (/\ ~result.done /\ result.k > 0
            /\ PackageToLower(args.outputs[result.i].package) = "hls"
            /\ Len(args.outputs[result.i].profiles) >= 1)
           => ListsInOrder(MasterOf(result.files),
                           args.outputs[result.i].profiles)

\* one ladder in ascending bandwidth order and one with a profile twice, both
\* written as declared
C30_Witness ==
    /\ args.fn = "Transcode"
    /\ result.done /\ result.err = ""
    /\ Len(args.outputs) = 2
    /\ args.outputs[1].package = "hls" /\ args.outputs[2].package = "hls"
    /\ args.outputs[1].profiles = <<P720, P1080>>
    /\ args.outputs[2].profiles = <<P1080, P1080>>
    /\ MasterOf(result.outputs[1].files)[1].bandwidth = 2628000
    /\ MasterOf(result.outputs[1].files)[2].bandwidth = 5128000
    /\ Len(MasterOf(result.outputs[2].files)) = 2

\* the stage of executeConversion a worker is in: 1 download, 2 validate,
\* 3 transcode, 4 upload, 5 cleanup, 6 notify; 0 before, 7 after
StageIdx(p) ==
    CASE p = "download" -> 1
      [] p = "validate" -> 2
      [] p \in {"transcode", "probing", "encode", "encoding"} -> 3
      [] p = "upload" -> 4
      [] p = "cleanup" -> 5
      [] p = "notify" -> 6
      [] p = "finish" -> 7
      [] OTHER -> 0

StageError(n) ==
    CASE n = 1 -> "failed to download source file"
      [] n = 2 -> "source file validation failed"
      [] n = 3 -> "transcoding failed"
      [] n = 4 -> "failed to upload output files"
      [] OTHER -> "failed"

\* a worker is in one of the six stages
InStage(p) == StageIdx(p) \in 1..6

\* the worker goes from a stage to the next one, or stays in its stage
StagesInOrder(w) ==
    (InStage(pc[w]) /\ pc'[w] \in JobStages) =>
        StageIdx(pc'[w]) \in {StageIdx(pc[w]), StageIdx(pc[w]) + 1}

\* the cleanup stage returns with the job temp directory still there
CleanupFailed(w) ==
    /\ pc[w] = "cleanup" /\ pc'[w] # pc[w]
    /\ workspace[cur[w].job] /\ workspace'[cur[w].job]

Holders(j) == {w \in WorkerIds : pc[w] \in JobStages /\ cur[w].job = j}

\* C25: no job is in the hands of two workers at the same time, and while a
\* job is in state processing its status is written only by a step of the one
\* worker that holds it.
C25_JobOwnedByOneWorker ==
    [][\A j \in Jobs :
         /\ Cardinality(Holders(j)) <= 1
         /\ (status[j].state = JobStateProcessing /\ status'[j] # status[j]) =>
               \E w \in Holders(j) : pc'[w] # pc[w]]_vars

\* filepath.Join(TempDir, job.JobID): the job temp directory of a job
JobTempDir(j) == <<"TempDir", j>>

\* the worker is between the download and the cleanup of the job it holds
UsesWorkspace(w) ==
    pc[w] \in {"download", "validate", "transcode", "probing", "encode",
               "encoding", "upload", "cleanup"}

\* C26: two runs that are in flight at the same time never work in the same
\* job temp directory, and a cleanup never removes the directory that another
\* run in flight is working in.
C26_WorkspaceNeverShared ==
    [][\A w \in WorkerIds : \A v \in WorkerIds \ {w} :
         /\ (UsesWorkspace(w) /\ UsesWorkspace(v)) =>
               JobTempDir(cur[w].job) # JobTempDir(cur[v].job)
         /\ (/\ pc[w] = "cleanup"
             /\ workspace[cur[w].job] /\ ~workspace'[cur[w].job]
             /\ UsesWorkspace(v) /\ pc[v] # "download") =>
               JobTempDir(cur[v].job) # JobTempDir(cur[w].job)]_vars

\* the directory of one run is removed by the cleanup of another
C26_RemovedUnderAnotherRun ==
    \E w \in WorkerIds : \E v \in WorkerIds \ {w} :
        /\ pc[w] = "notify"
        /\ pc[v] \in {"encoding", "upload"}
        /\ cur[v].job = cur[w].job
        /\ ~workspace[cur[v].job]

\* C27: UploadFiles stops at the first file whose upload fails: no file is
\* attempted after it, and the error it returns names that file's source path
\* and destination path and carries the cause.
C27_UploadFilesErrorContext ==
    (args.fn = "UploadFiles" /\ result.done /\ result.failed # 0) =>
        /\ result.attempted = result.uploaded \cup {result.failed}
        /\ result.err.cause # ""
        /\ SourcePath(result.failed) \in result.err.paths
        /\ DestinationPath(result.failed) \in result.err.paths

\* the batch stopped at its second file, two files in all were attempted
C27_StopsAtFirstFailure ==
    /\ args.fn = "UploadFiles" /\ result.done /\ result.failed # 0
    /\ args.fileMap = BatchFiles
    /\ Cardinality(result.uploaded) = 1
    /\ Cardinality(result.attempted) = 2

\* C29: the progress values that one encoder run delivers to the progress
\* sink, in the order of delivery, never decrease, the frame counts on the
\* encoder's progress lines being non-decreasing.
C29_RunProgressNonDecreasing ==
    args.fn = "runFFmpegWithProgress" =>
        \A k \in 1..(Len(result.sink) - 1) : result.sink[k] <= result.sink[k + 1]

\* a run has delivered two different values and its reader has ended
C29_Witness ==
    /\ args.fn = "runFFmpegWithProgress"
    /\ result.done
    /\ Len(result.sink) >= 2
    /\ result.sink[1] < result.sink[2]

\* the names of the builtin catalog
CatalogNames == {"240p", "360p", "480p", "720p", "1080p"}

\* C31: when an output gives a single profile name only, the rendition that
\* is encoded carries that name and is the catalog entry of that name.
C31_SingleProfileIsCatalogEntry ==
    (/\ args.fn = "Transcode" /\ ~result.done /\ result.k > 0
     /\ args.outputs[result.i].profiles = <<>>) =>
        /\ Len(result.profs) = 1
        /\ result.profs[1].name = args.outputs[result.i].profile
        /\ result.profs[1].name \in CatalogNames
        /\ result.profs[1] = getProfileByName(result.profs[1].name)

\* C32: every produced file goes to {jobId}/{outputName}/{filename}, and two
\* different produced files never go to the same destination.
C32_DestinationsDistinct ==
    (args.fn \in {"uploadOutputFiles", "copyOutputFilesToLocal"}
        /\ result.done) =>
        /\ \A i \in 1..Len(args.outputs) :
           \A n \in 1..Len(args.outputs[i].files) :
              <<FilePath(args.outputs[i], args.outputs[i].files[n]),
                <<"JobID", args.outputs[i].name,
                  Base(args.outputs[i].files[n])>>>> \in result.fileMap
        /\ \A x, y \in result.fileMap : x[1] # y[1] => x[2] # y[2]

\* C32 restricted to uploadOutputFiles of the storage interface
C32_UploadDestinationsDistinct ==
    (args.fn = "uploadOutputFiles" /\ result.done) =>
        \A x, y \in result.fileMap : x[1] # y[1] => x[2] # y[2]

-----------------------------------------------------------------------------
\* C33: source validation fails the job, and no transcode is started, when
\* the downloaded file is missing, has size 0, or is larger than the
\* configured ceiling in gigabytes; with a ceiling of zero or less no size
\* ceiling is applied, so every file that exists and is not empty passes.
\* "Larger than the ceiling" is the comparison of the sizes themselves, not
\* of the wrapped product.
C33_MustFail ==
    \/ ~args.exists
    \/ args.size = 0
    \/ /\ args.MaxTempDiskGB > 0
       /\ args.size > args.MaxTempDiskGB * BytesPerGB

C33_ValidationGate ==
    (args.fn = "executeConversion" /\ result.at # "validate") =>
        /\ C33_MustFail => (result.verr # "" /\ ~result.transcodeStarted)
        /\ (result.verr # "" /\ result.done) =>
              (result.err = "source file validation failed"
               /\ ~result.transcodeStarted)
        /\ (args.MaxTempDiskGB <= 0 /\ args.exists /\ args.size > 0) =>
              result.verr = ""

\* a file above a positive ceiling has been refused
C33_Witness ==
    /\ args.fn = "executeConversion"
    /\ result.done
    /\ args.exists /\ args.size > 0
    /\ args.MaxTempDiskGB > 0
    /\ args.size > args.MaxTempDiskGB * BytesPerGB
    /\ result.err = "source file validation failed"

\* a large file has gone to the transcoder under a ceiling of zero
C33_WitnessNoCeiling ==
    /\ args.fn = "executeConversion"
    /\ args.MaxTempDiskGB <= 0
    /\ args.size = MaxInt
    /\ result.transcodeStarted

-----------------------------------------------------------------------------
\* C34: a SubmitJob call that races with or follows the shutdown of the pool
\* (Start closing the queue) is rejected with an error: it never sends on
\* the closed queue, so it never panics, and the job is not enqueued.
C34_SubmitAfterCloseRejected ==
    queueClosed => submitResult \in {"none", "full"}

-----------------------------------------------------------------------------
\* C35: while the pool runs and is never cancelled, every job accepted by
\* SubmitJob is eventually dequeued and eventually reaches completed or
\* failed, under weak fairness of the workers.  An accepted job is an entry
\* of the queue; it carries the ticket of its acceptance.
Queued(t, j) ==
    \E i \in 1..Len(jobQueue) : jobQueue[i] = [job |-> j, ticket |-> t]

\* the run of ticket t is over and has left its job completed or failed
RunOver(t, j) ==
    /\ dequeued >= t
    /\ \A w \in WorkerIds : cur[w].ticket # t
    /\ status[j].state \in {JobStateCompleted, JobStateFailed}

C35_AcceptedJobsFinish ==
    \A t \in 1..MaxAccepted : \A j \in Jobs :
        /\ Queued(t, j) ~> (dequeued >= t)
        /\ Queued(t, j) ~> RunOver(t, j)

\* the second accepted job has been run to its end while the pool runs
C35_Witness ==
    /\ ~ctxDone
    /\ accepted = MaxAccepted
    /\ dequeued = MaxAccepted
    /\ \A w \in WorkerIds : cur[w] = NoJob
    /\ \E j \in Jobs : status[j].state = JobStateCompleted

-----------------------------------------------------------------------------
\* C36: after Start has returned, every job that was accepted but never
\* dequeued (it waits in the queue and no worker has ever received it) is in
\* state pending with no completedAt and no error, and its status never
\* changes again.
InQueue(j) == \E i \in 1..Len(jobQueue) : jobQueue[i].job = j

LeftBehind(j) == InQueue(j) /\ j \notin result.received

C36_LeftBehindJobsStayPending ==
    [][startPc = "returned" =>
         \A j \in Jobs :
            LeftBehind(j) =>
               /\ status[j].state = JobStatePending
               /\ ~status[j].completedAt
               /\ status[j].error = ""
               /\ status'[j] = status[j]]_vars

\* Start has returned, one job has been run and another one was left in the
\* queue; SubmitJob has been called again since
C36_Witness ==
    /\ startPc = "returned"
    /\ result.received # {}
    /\ \E j \in Jobs : LeftBehind(j) /\ status[j].state = JobStatePending
    /\ submitResult = "panic"

-----------------------------------------------------------------------------
\* C37: a SubmitJob call that returns the queue-full error leaves the status
\* of the job (and its createdAt, which SubmitJob writes on the line before
\* the status) exactly as it was before the call.
C37_RejectedSubmitLeavesStatus ==
    [][\A j \in Jobs :
         (SubmitJob(j) /\ submitResult' = "full") => status'[j] = status[j]]_vars

-----------------------------------------------------------------------------
\* C38: when UploadFiles fails on some file, the files of the batch uploaded
\* before it stay at the destination (nothing is rolled back), and which
\* files these are is not fixed by the batch: at every round of the loop any
\* file not yet tried can be the next one, so any of them can be the one that
\* fails, with the files uploaded so far left in place.
C38_NoRollbackAnyOrder ==
    args.fn = "UploadFiles" =>
        /\ (result.done /\ result.failed # 0) =>
              result.uploaded = result.attempted \ {result.failed}
        /\ (~result.done /\ args.backend.variant = "local") =>
              \A n \in args.fileMap \ result.attempted :
                 ENABLED (/\ UploadFilesStep
                          /\ result'.failed = n
                          /\ result'.uploaded = result.uploaded)

\* the batch of all files has failed on the first file after the last one
\* had been uploaded
C38_Witness ==
    /\ args.fn = "UploadFiles"
    /\ args.fileMap = BatchFiles
    /\ result.done
    /\ result.failed = 1
    /\ result.uploaded = {MaxFiles}

\* the same batch has failed on the same file with nothing uploaded
C38_WitnessNothingUploaded ==
    /\ args.fn = "UploadFiles"
    /\ args.fileMap = BatchFiles
    /\ result.done
    /\ result.failed = 1
    /\ result.uploaded = {}

-----------------------------------------------------------------------------
\* C39: no job is ever assigned the state cancelled: the state of a job that
\* has been handed to SubmitJob is pending, processing, completed or failed
\* in every reachable state, also when the pool was cancelled while the job
\* was being processed.  (A job object SubmitJob has not seen yet has the
\* zero status.)
C39_NeverCancelled ==
    \A j \in Jobs :
        \/ status[j] = ZeroStatus
        \/ status[j].state \in {JobStatePending, JobStateProcessing,
                                JobStateCompleted, JobStateFailed}

\* the pool was cancelled and Start has returned; a job whose source exists
\* has ended in the transcode stage, as failed
C39_Witness ==
    /\ startPc = "returned"
    /\ \E j \in Jobs :
          /\ status[j].state = JobStateFailed
          /\ status[j].error = "transcoding failed"
          /\ sourceExists[j]

-----------------------------------------------------------------------------
\* C40: parseFrameRate returns numerator/denominator for a string "n/d" with
\* numeric n and d and d # 0, the parsed number for a plain decimal string,
\* and 0 for an empty or malformed string or a zero denominator; it never
\* divides by zero.  What a numeric string is and what its value is are said
\* here position by position, not by reading the string.
IsDecimal(t) ==
    /\ \A i \in 1..Len(t) : t[i] \in Digits \cup {"."}
    /\ Cardinality({i \in 1..Len(t) : t[i] = "."}) <= 1
    /\ \E i \in 1..Len(t) : t[i] \in Digits

RECURSIVE PowerOfTen(_)
PowerOfTen(n) == IF n = 0 THEN 1 ELSE 10 * PowerOfTen(n - 1)

\* digits after position i
DigitsAfter(t, i) == Cardinality({k \in (i + 1)..Len(t) : t[k] \in Digits})

RECURSIVE DigitSum(_, _)
DigitSum(t, i) ==
    IF i > Len(t) THEN 0
    ELSE (IF t[i] \in Digits
          THEN DigitValue(t[i]) * PowerOfTen(DigitsAfter(t, i)) ELSE 0)
         + DigitSum(t, i + 1)

\* the value of a decimal string, as a fraction
DecimalValue(t) ==
    LET dots == {i \in 1..Len(t) : t[i] = "."}
        decimals == IF dots = {} THEN 0
                    ELSE DigitsAfter(t, CHOOSE i \in dots : TRUE)
    IN  Fraction(DigitSum(t, 1), PowerOfTen(decimals))

SameNumber(a, b) ==
    /\ a.den # 0 /\ b.den # 0
    /\ a.num * b.den = b.num * a.den

IsZero(a) == a.den # 0 /\ a.num = 0

\* s is n "/" d with decimal n and d, the slash at position i
IsRatio(s, i) ==
    /\ i \in 1..Len(s) /\ s[i] = "/"
    /\ IsDecimal(SubSeq(s, 1, i - 1))
    /\ IsDecimal(SubSeq(s, i + 1, Len(s)))

C40_ParseFrameRate ==
    (args.fn = "parseFrameRate" /\ result.done) =>
        LET s == args.frameRateStr
        IN  /\ \A i \in 1..Len(s) :
                  IsRatio(s, i) =>
                     LET n == DecimalValue(SubSeq(s, 1, i - 1))
                         d == DecimalValue(SubSeq(s, i + 1, Len(s)))
                     IN  IF d.num # 0
                         THEN SameNumber(Fraction(result.rate.num * d.num,
                                                  result.rate.den * d.den), n)
                         ELSE IsZero(result.rate)
            /\ IsDecimal(s) => SameNumber(result.rate, DecimalValue(s))
            /\ (~IsDecimal(s) /\ \A i \in 1..Len(s) : ~IsRatio(s, i)) =>
                  IsZero(result.rate)
            /\ result.divided => result.divisor.num # 0

\* "2/.1" has been parsed and divided: 20
C40_Witness ==
    /\ args.fn = "parseFrameRate"
    /\ args.frameRateStr = <<"2", "/", ".", "1">>
    /\ result.done
    /\ result.divided
    /\ SameNumber(result.rate, Fraction(20, 1))

\* a zero denominator has given 0
C40_WitnessZeroDenominator ==
    /\ args.fn = "parseFrameRate"
    /\ args.frameRateStr = <<"1", "/", "0">>
    /\ result.done
    /\ ~result.divided
    /\ IsZero(result.rate)

====
